---- MODULE Spec2Model ----
(***************************************************************************)
(* Model of the per-session SSH/SFTP relay of server.js: the connection    *)
(* registry sshConnections, the connect-ssh / connect-sftp handlers with   *)
(* the ssh2 Client callbacks they install, the teardown paths, and the     *)
(* file operation coordinator (structured SFTP call with shell fallback).  *)
(***************************************************************************)
EXTENDS Integers, Sequences, FiniteSets, TLC

\* ------------------------------------------------------------------ bounds
MaxSockets == 1
MaxConns == 2
MaxReqs == 1
MaxChunks == 1
MaxPathLen == 3
MaxCmds == 2
MaxOut == 2
MaxFiles == 3
MaxDirs == 1

\* Session identifiers are opaque keys (socket.handshake.query.sessionId,
\* req.session.id).  Every handler touches sshConnections[sessionId] for its own
\* sessionId only, so the relay specifications draw their requests from Sessions.
SessionIds == {1, 2}
Sessions == {1}

\* ------------------------------------------------------------------- state
VARIABLES
  sshConnections,  \* session id -> id of the Client held by its record, 0 = no entry
  conns,           \* every ssh2 Client created so far, in creation order
  sockets,         \* every socket.io socket accepted so far
  last,            \* the teardown performed by the last step, if it was one
  reqs,            \* every file operation request received so far
  term,            \* the shell stream of a Ready session: what went in and out
  esc,             \* a path and the shell command synthesized around it
  backupsDir       \* the backup script's directory: the archives in it, the run's clock

cvars == <<sshConnections, conns, sockets>>
tvars == <<term, esc, backupsDir>>
vars == <<sshConnections, conns, sockets, last, reqs, term, esc, backupsDir>>

ConnIds == 1..Len(conns)
SockIds == 1..Len(sockets)

\* const sshConnections = {};
InitRegistry == [s \in SessionIds |-> 0]

\* const conn = new Client();  together with what its handlers have emitted
NewClient(k, kind) ==
  [ sid |-> sockets[k].sid, sock |-> k, kind |-> kind, st |-> "connecting",
    ends |-> 0, closed |-> FALSE, sclosed |-> FALSE,
    estab |-> "none", connected |-> FALSE, errs |-> 0, connects |-> 1,
    initialPath |-> "none" ]

NoTeardown ==
  [ op |-> "none", sid |-> 0, entry |-> 0, threw |-> FALSE, ends |-> 0,
    run |-> 0, runThrew |-> FALSE, runEnds |-> 0 ]

\* Record of a teardown step, and of the run of two it may complete.
Teardown(op, s, entry, threw, ends) ==
  LET cont == last.op # "none" /\ last.sid = s IN
  [ op |-> op, sid |-> s, entry |-> entry, threw |-> threw, ends |-> ends,
    run |-> IF cont THEN 2 ELSE 1,
    runThrew |-> threw \/ (cont /\ last.threw),
    runEnds |-> ends + (IF cont THEN last.ends ELSE 0) ]

\* The shell relay and the command synthesis are not part of a state that
\* has neither.
NoTerm == [ written |-> <<>>, submitted |-> <<>>, errors |-> <<>>,
            chunks |-> <<>>, errchunks |-> <<>>, responses |-> <<>>,
            dataBuffer |-> <<>> ]
NoCommand == [ op |-> "none", path |-> <<>>, cmd |-> <<>> ]

\* The backup script is a program of its own: the server's state has no
\* backup directory.
NoBackups == [ files |-> {}, now |-> 0, ph |-> "none", unlinked |-> {} ]

\* Whether the session's record holds Client c at this moment.
RegisteredAs(c) ==
  IF sshConnections[conns[c].sid] = c THEN "registered" ELSE "unregistered"

\* A transport that has been ended: end() was called on it or it emitted close.
Ended(c) == conns[c].ends > 0 \/ conns[c].closed

Init ==
  /\ sshConnections = InitRegistry
  /\ conns = <<>>
  /\ sockets = <<>>
  /\ last = NoTeardown
  /\ reqs = <<>>
  /\ term = NoTerm
  /\ esc = NoCommand
  /\ backupsDir = NoBackups

\* ---------------------------------------------------------------- handlers

\* io.on('connection'): sessionId comes from the handshake query.
SocketConnect(s) ==
  /\ Len(sockets) < MaxSockets
  /\ sockets' = Append(sockets, [sid |-> s, up |-> TRUE])
  /\ UNCHANGED <<sshConnections, conns>>

\* socket.on('connect-ssh'): new Client, handlers installed, conn.connect().
\* data.initialPath of a connect-ssh request: absent, empty, the default
\* directory, or another directory.
NoPath == "none"
InitialPaths == {NoPath, "", "/home", "/srv"}

ConnectSsh(k, initialPath) ==
  /\ sockets[k].up
  /\ Len(conns) < MaxConns
  /\ conns' = Append(conns, [NewClient(k, "ssh") EXCEPT !.initialPath = initialPath])
  /\ UNCHANGED <<sshConnections, sockets>>

\* socket.on('connect-sftp'): new Client, handlers installed, conn.connect().
ConnectSftp(k) ==
  /\ sockets[k].up
  /\ Len(conns) < MaxConns
  /\ conns' = Append(conns, NewClient(k, "sftp"))
  /\ UNCHANGED <<sshConnections, sockets>>

\* Mutant of ConnReady: the established message is not sent from the ready handler.
ConnReadySilent(c) ==
  /\ conns[c].st = "connecting"
  /\ conns' = [conns EXCEPT ![c].st = "ready"]
  /\ UNCHANGED <<sshConnections, sockets>>

\* conn.on('ready'): emits the established message, then asks for the shell
\* (connect-ssh) or the SFTP session (connect-sftp).
ConnReady(c) ==
  /\ conns[c].st = "connecting"
  /\ conns' = [conns EXCEPT ![c].st = "ready", ![c].estab = RegisteredAs(c)]
  /\ UNCHANGED <<sshConnections, sockets>>

\* conn.on('error') before ready: one error notification, nothing else.
\* Mutant of ConnError: the handler reports the failure and connects again.
ConnErrorReconnects(c) ==
  /\ conns[c].st = "connecting"
  /\ conns' = [conns EXCEPT ![c].errs = @ + 1, ![c].connects = @ + 1]
  /\ UNCHANGED <<sshConnections, sockets>>

ConnError(c) ==
  /\ conns[c].st = "connecting"
  /\ conns' = [conns EXCEPT ![c].st = "connfail", ![c].errs = @ + 1]
  /\ UNCHANGED <<sshConnections, sockets>>

\* Mutant of ShellFail: the return is missing, so the record is stored as well.
ShellFailFallsThrough(c) ==
  /\ conns[c].st = "ready" /\ conns[c].kind = "ssh"
  /\ conns' = [conns EXCEPT ![c].st = "openfail", ![c].errs = @ + 1,
                            ![c].ends = @ + 1]
  /\ sshConnections' = [sshConnections EXCEPT ![conns[c].sid] = c]
  /\ UNCHANGED sockets

\* conn.shell callback, err: error notification, conn.end(), return.
ShellFail(c) ==
  /\ conns[c].st = "ready" /\ conns[c].kind = "ssh"
  /\ conns' = [conns EXCEPT ![c].st = "openfail", ![c].errs = @ + 1,
                            ![c].ends = @ + 1]
  /\ UNCHANGED <<sshConnections, sockets>>

\* conn.shell callback, success: sshConnections[sessionId] = { conn, stream }.
\* `cd ${data.initialPath}\n`
CdLine(initialPath) == <<"cd ", initialPath, "\n">>

\* data.initialPath && data.initialPath !== '/home'
ChangesDirectory(initialPath) == initialPath \notin {NoPath, "", "/home"}

\* Mutant of ShellOpened: the directory change is written whatever was asked.
ShellOpenedAlwaysCd(c) ==
  /\ conns[c].st = "ready" /\ conns[c].kind = "ssh" /\ ~conns[c].closed
  /\ sshConnections' = [sshConnections EXCEPT ![conns[c].sid] = c]
  /\ conns' = [conns EXCEPT ![c].st = "open"]
  /\ term' = [term EXCEPT !.written = Append(@, CdLine(conns[c].initialPath))]
  /\ UNCHANGED sockets

\* conn.shell calls back with the stream: the record is stored, the stream's
\* handlers are installed and the directory change is written to it.
ShellOpened(c) ==
  /\ conns[c].st = "ready" /\ conns[c].kind = "ssh" /\ ~conns[c].closed
  /\ sshConnections' = [sshConnections EXCEPT ![conns[c].sid] = c]
  /\ conns' = [conns EXCEPT ![c].st = "open"]
  /\ term' = [term EXCEPT
               !.written = IF ChangesDirectory(conns[c].initialPath)
                           THEN Append(@, CdLine(conns[c].initialPath)) ELSE @]
  /\ UNCHANGED sockets

\* conn.sftp callback, err: sftp-error notification, conn.end(), return.
SftpFail(c) ==
  /\ conns[c].st = "ready" /\ conns[c].kind = "sftp"
  /\ conns' = [conns EXCEPT ![c].st = "openfail", ![c].errs = @ + 1,
                            ![c].ends = @ + 1]
  /\ UNCHANGED <<sshConnections, sockets>>

\* conn.sftp callback, success: sshConnections[sessionId] = { conn, sftp },
\* then sftp-connected.
\* Mutant of SftpOpened: the record is stored under every session id.
SftpOpenedEverySession(c) ==
  /\ conns[c].st = "ready" /\ conns[c].kind = "sftp" /\ ~conns[c].closed
  /\ sshConnections' = [s \in SessionIds |-> c]
  /\ conns' = [conns EXCEPT ![c].st = "open", ![c].connected = TRUE]
  /\ UNCHANGED sockets

SftpOpened(c) ==
  /\ conns[c].st = "ready" /\ conns[c].kind = "sftp" /\ ~conns[c].closed
  /\ sshConnections' = [sshConnections EXCEPT ![conns[c].sid] = c]
  /\ conns' = [conns EXCEPT ![c].st = "open", ![c].connected = TRUE]
  /\ UNCHANGED sockets

\* Mutant of StreamClose: conn.end() is called without looking at the registry.
StreamCloseAlwaysEnds(c) ==
  /\ conns[c].st = "open" /\ conns[c].kind = "ssh" /\ ~conns[c].sclosed
  /\ LET s == conns[c].sid IN
     /\ conns' = [conns EXCEPT ![c].sclosed = TRUE, ![c].ends = @ + 1]
     /\ sshConnections' = [sshConnections EXCEPT ![s] = 0]
  /\ UNCHANGED sockets

\* stream.on('close') of the shell stream: if the session has an entry,
\* conn.end() on the handler's own Client and delete the entry.
StreamClose(c) ==
  /\ conns[c].st = "open" /\ conns[c].kind = "ssh" /\ ~conns[c].sclosed
  /\ LET s == conns[c].sid
         has == sshConnections[s] # 0 IN
     /\ conns' = [conns EXCEPT ![c].sclosed = TRUE,
                               ![c].ends = IF has THEN @ + 1 ELSE @]
     /\ sshConnections' = IF has THEN [sshConnections EXCEPT ![s] = 0]
                          ELSE sshConnections
  /\ UNCHANGED sockets

\* conn.on('close'): delete the session's entry if there is one.
\* Mutant of ConnClose: the close handler leaves the registry alone.
ConnCloseKeepsEntry(c) ==
  /\ conns[c].st # "connecting" /\ ~conns[c].closed
  /\ conns' = [conns EXCEPT ![c].closed = TRUE]
  /\ UNCHANGED <<sshConnections, sockets>>

ConnClose(c) ==
  /\ conns[c].st # "connecting" /\ ~conns[c].closed
  /\ LET s == conns[c].sid IN
     sshConnections' = IF sshConnections[s] # 0
                       THEN [sshConnections EXCEPT ![s] = 0]
                       ELSE sshConnections
  /\ conns' = [conns EXCEPT ![c].closed = TRUE]
  /\ UNCHANGED sockets

\* socket.on('disconnect'): end the registered Client and delete the entry.
SocketDisconnect(k) ==
  /\ sockets[k].up
  /\ LET s == sockets[k].sid
         e == sshConnections[s] IN
     /\ sockets' = [sockets EXCEPT ![k].up = FALSE]
     /\ conns' = IF e # 0 THEN [conns EXCEPT ![e].ends = @ + 1] ELSE conns
     /\ sshConnections' = IF e # 0 THEN [sshConnections EXCEPT ![s] = 0]
                          ELSE sshConnections

\* app.get('/disconnect') and app.get('/logout'): both call
\* sshConnections[sessionId].end(); the record { conn, stream | sftp } has no
\* end method, so with an entry present the call throws a TypeError before the
\* delete, and the entry stays.
RouteThrows(s) == sshConnections[s] # 0

RouteDisconnect(s) ==
  /\ s \in Sessions
  /\ UNCHANGED <<sshConnections, conns, sockets>>

RouteLogout(s) ==
  /\ s \in Sessions
  /\ UNCHANGED <<sshConnections, conns, sockets>>

\* ------------------------------------------------ file operation coordinator

\* Text is a sequence of tokens; + is concatenation, includes() is membership.
Includes(text, tok) == \E i \in 1..Len(text) : text[i] = tok

ReqIds == 1..Len(reqs)

CallbackOps == {"delete-file", "delete-dir", "rename-file", "create-folder"}
FileOps == CallbackOps \cup {"read-file", "save-file"}
EventOps == FileOps \cup {"list-directory", "zip-directory", "upload-file"}
HttpOps == {"GET /file/download", "POST /file/zip-download",
            "GET /file/content", "POST /file/save"}

\* err.message of a failed SFTP call, shellErr.message of a failed exec.
ErrMsgs == {"Permission denied"}
ShellErrMsgs == {"Unable to exec"}

\* The token appended to the fallback command with || echo "...".
Sentinel(op) ==
  CASE op \in {"delete-file", "delete-dir"} -> "RM_FAILED"
    [] op = "rename-file" -> "MV_FAILED"
    [] op = "create-folder" -> "MKDIR_FAILED"
    [] op = "save-file" -> "WRITE_FAILED"
    [] OTHER -> "none"

\* What the fallback command can print: ordinary text, or a sentinel.
StdoutChunks(op) == {"text"} \cup ({Sentinel(op)} \ {"none"})
StderrChunks(op) == {"diagnostic"} \cup ({Sentinel(op)} \ {"none"})

\* Exit status passed to stream.on('close'); -1 stands for no code (a signal).
ExitCodes == {0, 1, -1}

\* The event that reports success of an operation.
SuccessEvent(op) ==
  CASE op \in {"delete-file", "delete-dir"} -> "delete-complete"
    [] op = "rename-file" -> "rename-complete"
    [] op = "create-folder" -> "folder-created"
    [] op = "read-file" -> "file-content"
    [] op = "list-directory" -> "directory-list"
    [] op = "zip-directory" -> "zip-complete"
    [] op = "upload-file" -> "upload-complete"
    [] OTHER -> "file-saved"

\* Mutant of FallbackFailed: the sentinel is looked for in stderr as well.
FallbackFailedAnyStream(op, code, out, errout) ==
  code # 0 \/ Includes(out \o errout, Sentinel(op))

\* stream.on('close', code): code !== 0 || commandOutput.includes(SENTINEL);
\* the cat fallback of read-file tests code !== 0 alone.
FallbackFailed(op, code, out, errout) ==
  IF op = "read-file" THEN code # 0
  ELSE code # 0 \/ Includes(out, Sentinel(op))

\* Text of the error sent when the fallback command is classified as failed.
FallbackFailText(op, serr, errout) ==
  CASE op = "delete-dir" -> <<"Failed to delete directory with rm command: ">> \o errout
    [] op = "delete-file" -> <<"Failed to delete file with rm command: ">> \o errout
    [] op = "rename-file" -> <<"Failed to rename with mv command: ">> \o errout
    [] op = "create-folder" -> <<"Failed to create folder with mkdir command: ">> \o errout
    [] op = "read-file" -> <<"Failed to read file with cat command: ">> \o errout
    [] OTHER -> <<"Failed to save file with shell command: ">> \o errout

\* Text of the error sent when conn.exec calls back with shellErr.
\* Mutant of ExecErrText: only the exec error is reported.
ExecErrTextShellOnly(op, serr, shellErr) ==
  <<"Shell command failed: ", shellErr>>

ExecErrText(op, serr, shellErr) ==
  LET head == CASE op = "delete-dir" -> "Failed to delete directory: "
                [] op = "delete-file" -> "Failed to delete file: "
                [] op = "rename-file" -> "Failed to rename: "
                [] op = "create-folder" -> "Failed to create folder: "
                [] op = "read-file" -> "Failed to read file: "
                [] OTHER -> "Failed to save file: "
  IN <<head, serr, ". Shell command also failed: ", shellErr>>

\* The keys of the object sent with an operation's success event.
PayloadShape(op) ==
  CASE op = "read-file" -> <<"path", "content">>
    [] op = "save-file" -> <<"path">>
    [] op = "list-directory" -> <<"path", "files">>
    [] op = "zip-directory" -> <<"path">>
    [] OTHER -> <<>>

\* socket.emit(ev, ...) from a handler of request r; up records whether the
\* socket was still connected when the handler emitted.
Emit(r, ev, text, by) ==
  Append(reqs[r].emits, [ev |-> ev, text |-> text, by |-> by,
                         up |-> sockets[reqs[r].sock].up])

\* A request as it arrives: nothing called on the remote host, nothing sent.
\* remote counts the SFTP calls made for it, nexec the shell commands.
\* The archive of a /file/zip-download request: the files appended so far,
\* the entries appended and not yet written, the entries written, whether
\* finalize() was called and how often, how the response stands, and the
\* traversal: the readdir calls awaiting their callback, the rest of the
\* listing of every directory whose loop awaits a subdirectory (innermost
\* first), the directories listed so far and whether a listing has failed.
NoArchive ==
  [ list |-> <<>>, queue |-> <<>>, written |-> <<>>, finalized |-> FALSE,
    stalled |-> FALSE, res |-> "open", outstanding |-> 0, stack |-> <<>>,
    ndirs |-> 0, finalizes |-> 0, failed |-> FALSE ]

\* let mode = 0o644
DefaultMode == 420

\* What sftp.stat can call back with: an error (no such file), or the
\* attributes of the existing file (a regular file of mode 0o100600).
NoStat == [done |-> FALSE, err |-> FALSE, mode |-> 0]
StatResults == {[done |-> TRUE, err |-> TRUE, mode |-> 0],
                [done |-> TRUE, err |-> FALSE, mode |-> 33152]}

NewRequest(k, op, e) ==
  [ op |-> op, sock |-> k, conn |-> e, ph |-> "done", sres |-> "pending",
    serr |-> "none", remote |-> 0, nexec |-> 0, out |-> <<>>, errout |-> <<>>,
    code |-> 0, wclosed |-> FALSE, exc |-> "none", status |-> 0,
    args |-> "none", out2 |-> <<>>, errout2 |-> <<>>, code2 |-> 0,
    stat |-> NoStat, mode |-> 0, temp |-> 0, content |-> <<>>, sent |-> <<>>,
    arch |-> NoArchive, emits |-> <<>> ]

\* Mutant of HasSftp: any record of the session passes the guard.
HasRecord(s) == sshConnections[s] # 0

\* sshConnections[sessionId] && sshConnections[sessionId].sftp
HasSftp(s) == sshConnections[s] # 0 /\ conns[sshConnections[s]].kind = "sftp"

\* The call a handler makes once its guard has passed: save-file asks for the
\* file's attributes, zip-directory announces the archive and runs zip, every
\* other handler makes its structured call.
Started(r, op) ==
  CASE op = "save-file" -> [r EXCEPT !.ph = "stat", !.remote = 1]
    [] op = "zip-directory" ->
         [r EXCEPT !.ph = "zip", !.nexec = 1,
                   !.emits = <<[ev |-> "zip-started", text |-> <<"path", "message">>,
                                by |-> "handler", up |-> TRUE]>>]
    [] OTHER -> [r EXCEPT !.ph = "structured", !.remote = 1]

\* The guard and first call of every file operation handler: without a record
\* holding an sftp handle, one 'No active SFTP connection' error and return;
\* otherwise sftp and conn are taken from the record and the structured call
\* (for save-file, the stat) is started.
FileRequest(k, op) ==
  /\ sockets[k].up
  /\ Len(reqs) < MaxReqs
  /\ LET e == sshConnections[sockets[k].sid]
         r == NewRequest(k, op, e) IN
     reqs' = Append(reqs,
       IF ~HasSftp(sockets[k].sid)
       THEN [r EXCEPT !.emits = <<[ev |-> "sftp-error",
                                   text |-> <<"No active SFTP connection">>,
                                   by |-> "guard", up |-> TRUE]>>]
       ELSE Started(r, op))
  /\ UNCHANGED <<sshConnections, conns, sockets, last, tvars>>

\* socket.on('list-directory')
ListDirectory(k) == FileRequest(k, "list-directory")

\* socket.on('zip-directory')
ZipDirectory(k) == FileRequest(k, "zip-directory")

\* socket.on('upload-file')
UploadFile(k) == FileRequest(k, "upload-file")

\* socket.on('delete-file'), isDirectory false / true
DeleteFile(k, isDirectory) ==
  FileRequest(k, IF isDirectory THEN "delete-dir" ELSE "delete-file")

\* socket.on('rename-file')
RenameFile(k) == FileRequest(k, "rename-file")

\* socket.on('create-folder')
CreateFolder(k) == FileRequest(k, "create-folder")

\* socket.on('read-file')
ReadFile(k) == FileRequest(k, "read-file")

\* socket.on('save-file')
SaveFile(k) == FileRequest(k, "save-file")

\* Mutant of ExecFallback: the command is issued a second time.
ExecFallbackTwice(r, m) ==
  reqs' = [reqs EXCEPT ![r].sres = "err", ![r].serr = m,
                       ![r].nexec = @ + 2, ![r].ph = "exec", ![r].exc = "none"]

\* conn.exec(command, callback) issued from a failure handler of request r:
\* the one shell command attempt.  On a Client that has been ended the call
\* either throws or calls back with an error.
ExecFallback(r, m) ==
  \E outcome \in (IF Ended(reqs[r].conn) THEN {"exec", "threw"} ELSE {"exec"}) :
    reqs' = [reqs EXCEPT ![r].sres = "err", ![r].serr = m,
                         ![r].nexec = @ + 1, ![r].ph = outcome,
                         ![r].exc = IF outcome = "threw" THEN "Not connected"
                                    ELSE "none"]

\* Callback of sftp.unlink / rmdir / rename / mkdir without err.
StructuredOk(r) ==
  /\ reqs[r].ph = "structured" /\ reqs[r].op \in CallbackOps
  /\ reqs' = [reqs EXCEPT ![r].sres = "ok", ![r].ph = "done",
                ![r].emits = Emit(r, SuccessEvent(reqs[r].op),
                                  PayloadShape(reqs[r].op), "structured")]
  /\ UNCHANGED <<sshConnections, conns, sockets, last, tvars>>

\* Callback of sftp.unlink / rmdir / rename / mkdir with err: the fallback.
StructuredErr(r, m) ==
  /\ reqs[r].ph = "structured" /\ reqs[r].op \in CallbackOps
  /\ ExecFallback(r, m)
  /\ UNCHANGED <<sshConnections, conns, sockets, last, tvars>>

\* readStream.on('end'): file-content with the accumulated text.
\* What the structured read stream delivers.
ReadChunks == {"partial", "tail"}

\* readStream.on('data'): content += chunk
ReadData(r, tok) ==
  /\ reqs[r].ph = "structured" /\ reqs[r].op = "read-file"
  /\ Len(reqs[r].content) < MaxChunks
  /\ reqs' = [reqs EXCEPT ![r].content = Append(@, tok)]
  /\ UNCHANGED <<sshConnections, conns, sockets, last, tvars>>

ReadEnd(r) ==
  /\ reqs[r].ph = "structured" /\ reqs[r].op = "read-file"
  /\ reqs' = [reqs EXCEPT ![r].sres = "ok", ![r].ph = "done",
                ![r].sent = reqs[r].content,
                ![r].emits = Emit(r, "file-content", PayloadShape("read-file"),
                                  "structured")]
  /\ UNCHANGED <<sshConnections, conns, sockets, last, tvars>>

\* readStream.on('error'): the cat fallback.
ReadError(r, m) ==
  /\ reqs[r].ph = "structured" /\ reqs[r].op = "read-file"
  /\ ExecFallback(r, m)
  /\ UNCHANGED <<sshConnections, conns, sockets, last, tvars>>

\* sftp.stat callback of save-file: the write stream is created and ended with
\* the content, whether or not the stat failed.
StatDone(r, stats) ==
  /\ reqs[r].ph = "stat"
  /\ reqs' = [reqs EXCEPT ![r].ph = "structured", ![r].remote = @ + 1,
                ![r].stat = stats,
                ![r].mode = IF ~stats.err THEN stats.mode ELSE DefaultMode]
  /\ UNCHANGED <<sshConnections, conns, sockets, last, tvars>>

\* writeStream.on('error'): the here-document fallback.
\* The values Date.now() can return: the millisecond of the latest earlier
\* reading, or a later one (readings are numbered from 1).
Now ==
  LET read == {reqs[q].temp : q \in ReqIds} \ {0} IN
  IF read = {} THEN {1}
  ELSE LET latest == CHOOSE t \in read : \A u \in read : u <= t IN {latest, latest + 1}

\* writeStream.on('error') of save-file: tempPath is named after Date.now()
\* and the here-document command is run.
WriteError(r, m) ==
  /\ reqs[r].ph = "structured" /\ reqs[r].op = "save-file" /\ ~reqs[r].wclosed
  /\ \E t \in Now :
     \E outcome \in (IF Ended(reqs[r].conn) THEN {"exec", "threw"} ELSE {"exec"}) :
       reqs' = [reqs EXCEPT ![r].sres = "err", ![r].serr = m,
                            ![r].nexec = @ + 1, ![r].ph = outcome,
                            ![r].temp = t,
                            ![r].exc = IF outcome = "threw" THEN "Not connected"
                                       ELSE "none"]
  /\ UNCHANGED <<sshConnections, conns, sockets, last, tvars>>

\* writeStream.on('close'): file-saved, whether or not 'error' came before.
WriteClose(r) ==
  /\ reqs[r].op = "save-file" /\ ~reqs[r].wclosed
  /\ reqs[r].ph \notin {"stat"}
  /\ reqs' = [reqs EXCEPT ![r].wclosed = TRUE,
                ![r].sres = IF @ = "pending" THEN "ok" ELSE @,
                ![r].ph = IF @ = "structured" THEN "done" ELSE @,
                ![r].emits = Emit(r, "file-saved", PayloadShape("save-file"), "wclose")]
  /\ UNCHANGED <<sshConnections, conns, sockets, last, tvars>>

\* conn.exec callback with shellErr: one error naming both failures, return.
ExecCallbackErr(r, m) ==
  /\ reqs[r].ph = "exec"
  /\ reqs' = [reqs EXCEPT ![r].ph = "done",
                ![r].emits = Emit(r, "sftp-error",
                                  ExecErrText(reqs[r].op, reqs[r].serr, m), "execcb")]
  /\ UNCHANGED <<sshConnections, conns, sockets, last, tvars>>

\* conn.exec callback with the command's stream: handlers installed.
ExecCallbackStream(r) ==
  /\ reqs[r].ph = "exec" /\ ~Ended(reqs[r].conn)
  /\ reqs' = [reqs EXCEPT ![r].ph = "stream"]
  /\ UNCHANGED <<sshConnections, conns, sockets, last, tvars>>

\* stream.on('data'): commandOutput += data
ExecData(r, tok) ==
  /\ reqs[r].ph = "stream"
  /\ Len(reqs[r].out) + Len(reqs[r].errout) < MaxChunks
  /\ reqs' = [reqs EXCEPT ![r].out = Append(@, tok)]
  /\ UNCHANGED <<sshConnections, conns, sockets, last, tvars>>

\* stream.stderr.on('data'): errorOutput += data
ExecStderr(r, tok) ==
  /\ reqs[r].ph = "stream"
  /\ Len(reqs[r].out) + Len(reqs[r].errout) < MaxChunks
  /\ reqs' = [reqs EXCEPT ![r].errout = Append(@, tok)]
  /\ UNCHANGED <<sshConnections, conns, sockets, last, tvars>>

\* stream.on('close', code): classify the fallback and send the one result.
ExecClose(r, code) ==
  /\ reqs[r].ph = "stream"
  /\ LET q == reqs[r]
         failed == FallbackFailed(q.op, code, q.out, q.errout) IN
     reqs' = [reqs EXCEPT ![r].ph = "done", ![r].code = code,
                ![r].sent = IF ~failed /\ q.op = "read-file" THEN q.out ELSE @,
                ![r].emits =
                  IF failed
                  THEN Emit(r, "sftp-error",
                            FallbackFailText(q.op, q.serr, q.errout), "execclose")
                  ELSE Emit(r, SuccessEvent(q.op), PayloadShape(q.op), "execclose")]
  /\ UNCHANGED <<sshConnections, conns, sockets, last, tvars>>

\* sftp.readdir callback without err: the listing.
ListOk(r) ==
  /\ reqs[r].ph = "structured" /\ reqs[r].op = "list-directory"
  /\ reqs' = [reqs EXCEPT ![r].sres = "ok", ![r].ph = "done",
                ![r].emits = Emit(r, "directory-list",
                                  PayloadShape("list-directory"), "structured")]
  /\ UNCHANGED <<sshConnections, conns, sockets, last, tvars>>

\* sftp.readdir callback with err: one error, no fallback.
ListErr(r, m) ==
  /\ reqs[r].ph = "structured" /\ reqs[r].op = "list-directory"
  /\ reqs' = [reqs EXCEPT ![r].sres = "err", ![r].serr = m, ![r].ph = "done",
                ![r].emits = Emit(r, "sftp-error",
                                  <<"Failed to read directory: ", m>>, "structured")]
  /\ UNCHANGED <<sshConnections, conns, sockets, last, tvars>>

\* writeStream.on('error') of upload-file: the error is sent, then the handler
\* reads sshConnections[sessionId].conn; without an entry that read raises a
\* TypeError, with one the retry message is sent (no retry is made).
UploadError(r, m) ==
  /\ reqs[r].ph = "structured" /\ reqs[r].op = "upload-file" /\ ~reqs[r].wclosed
  /\ LET gone == sshConnections[sockets[reqs[r].sock].sid] = 0
         sent == Emit(r, "sftp-error", <<"Upload failed: ", m>>, "werror") IN
     reqs' = [reqs EXCEPT
                ![r].sres = "err", ![r].serr = m,
                ![r].ph = IF gone THEN "threw" ELSE "errored",
                ![r].exc = IF gone THEN "TypeError" ELSE "none",
                ![r].emits =
                  IF gone THEN sent
                  ELSE Append(sent,
                         [ev |-> "message",
                          text |-> <<"Retrying upload with alternate method...">>,
                          by |-> "werror", up |-> sockets[reqs[r].sock].up])]
  /\ UNCHANGED <<sshConnections, conns, sockets, last, tvars>>

\* writeStream.on('close') of upload-file: upload-complete, whether or not
\* 'error' came before.
UploadClose(r) ==
  /\ reqs[r].op = "upload-file" /\ ~reqs[r].wclosed
  /\ reqs[r].ph \in {"structured", "errored"}
  /\ reqs' = [reqs EXCEPT ![r].wclosed = TRUE,
                ![r].sres = IF @ = "pending" THEN "ok" ELSE @,
                ![r].ph = "done",
                ![r].emits = Emit(r, "upload-complete", <<>>, "wclose")]
  /\ UNCHANGED <<sshConnections, conns, sockets, last, tvars>>

\* ------------------------------------------------------------- zip-download

\* The items of a directory listing: a subdirectory, or a file whose read
\* stream either delivers the file or fails.
Items == {[dir |-> TRUE, readable |-> TRUE], [dir |-> FALSE, readable |-> TRUE],
          [dir |-> FALSE, readable |-> FALSE]}
DirLists == UNION {[1..n -> Items] : n \in 0..MaxFiles}
Count(list, isdir) == Cardinality({i \in 1..Len(list) : list[i].dir = isdir})

\* What archiver does with an appended entry whose source stream fails: the
\* archive emits 'error', or the entry never completes.
EntryFailures == {"error", "stall"}

Archiving(r) ==
  /\ reqs[r].op = "POST /file/zip-download" /\ reqs[r].ph = "transfer"
  /\ reqs[r].arch.res = "open" /\ ~reqs[r].arch.stalled

\* The loop over the items of a listing: a file is appended (named by its
\* place among the appended files), a subdirectory is listed and awaited;
\* at the end of a listing the promise resolves, which resumes the loop of
\* the directory that awaits it or, at the top, calls finalize().
RECURSIVE Traverse(_, _)
Traverse(a, items) ==
  IF items = <<>>
  THEN IF a.stack = <<>>
       THEN [a EXCEPT !.finalized = TRUE, !.finalizes = @ + 1]
       ELSE Traverse([a EXCEPT !.stack = Tail(@)], Head(a.stack))
  ELSE IF Head(items).dir
  THEN [a EXCEPT !.stack = <<Tail(items)>> \o @, !.outstanding = @ + 1]
  ELSE LET entry == [name |-> Len(a.list) + 1, readable |-> Head(items).readable]
       IN Traverse([a EXCEPT !.list = Append(@, entry), !.queue = Append(@, entry)],
                   Tail(items))

\* Mutant of ReaddirErr: the failed directory is skipped and the loop of the
\* directory that awaits it goes on.
ReaddirErrSkipsDirectory(r) ==
  /\ reqs[r].op = "POST /file/zip-download" /\ reqs[r].arch.outstanding > 0
  /\ reqs' = [reqs EXCEPT ![r].arch =
                Traverse([@ EXCEPT !.outstanding = @ - 1, !.failed = TRUE], <<>>)]
  /\ UNCHANGED <<sshConnections, conns, sockets, last, tvars>>

\* readdir calls back with the listing: the loop runs over it.
ReaddirOk(r, list) ==
  /\ reqs[r].op = "POST /file/zip-download" /\ reqs[r].arch.outstanding > 0
  /\ Len(reqs[r].arch.list) + Count(list, FALSE) <= MaxFiles
  /\ reqs[r].arch.ndirs + Count(list, TRUE) <= MaxDirs
  /\ reqs' = [reqs EXCEPT ![r].arch =
                Traverse([@ EXCEPT !.outstanding = @ - 1,
                                   !.ndirs = @ + Count(list, TRUE)], list)]
  /\ UNCHANGED <<sshConnections, conns, sockets, last, tvars>>

\* readdir calls back with an error: the promise is rejected, every loop
\* that awaits it rejects in turn without going on, and the catch at the top
\* calls finalize().
ReaddirErr(r) ==
  /\ reqs[r].op = "POST /file/zip-download" /\ reqs[r].arch.outstanding > 0
  /\ reqs' = [reqs EXCEPT ![r].arch.outstanding = @ - 1,
                ![r].arch.failed = TRUE,
                ![r].arch.stack = <<>>,
                ![r].arch.finalized = TRUE,
                ![r].arch.finalizes = @ + 1]
  /\ UNCHANGED <<sshConnections, conns, sockets, last, tvars>>

\* The read stream of the entry being written ends: the entry is complete.
EntryEnd(r) ==
  /\ Archiving(r) /\ reqs[r].arch.queue # <<>>
  /\ Head(reqs[r].arch.queue).readable
  /\ reqs' = [reqs EXCEPT ![r].arch.queue = Tail(@),
                ![r].arch.written = Append(@, Head(reqs[r].arch.queue).name)]
  /\ UNCHANGED <<sshConnections, conns, sockets, last, tvars>>

\* The read stream of the entry being written fails: fileStream.on('error')
\* logs it; the entry stays appended, and archive.on('error') ends the
\* response with status 500 when the archive reports the failure.
EntryError(r, outcome) ==
  /\ Archiving(r) /\ reqs[r].arch.queue # <<>>
  /\ ~Head(reqs[r].arch.queue).readable
  /\ reqs' = [reqs EXCEPT
                ![r].arch.stalled = (outcome = "stall"),
                ![r].arch.res = IF outcome = "error" THEN "500" ELSE @,
                ![r].status = IF outcome = "error" THEN 500 ELSE @]
  /\ UNCHANGED <<sshConnections, conns, sockets, last, tvars>>

\* Every appended entry is written and finalize() was called: the archive
\* ends and with it the piped response.
ArchiveEnd(r) ==
  /\ Archiving(r) /\ reqs[r].arch.finalized /\ reqs[r].arch.queue = <<>>
  /\ reqs' = [reqs EXCEPT ![r].arch.res = "ended", ![r].ph = "done"]
  /\ UNCHANGED <<sshConnections, conns, sockets, last, tvars>>

\* ------------------------------------------------------------ zip-directory

\* What the two zip commands can print.
ZipStdout == {"text", "ZIP_FAILED"}
ZipStderr == {"diagnostic"}
RetryStdout == {"text", "TEMP_ZIP_FAILED"}
RetryStderr == {"retry diagnostic"}

\* code !== 0 || commandOutput.includes('ZIP_FAILED')
ZipFailed(code, out) == code # 0 \/ Includes(out, "ZIP_FAILED")

\* sudoCode !== 0 || sudoOutput.includes('TEMP_ZIP_FAILED')
RetryFailed(code, out) == code # 0 \/ Includes(out, "TEMP_ZIP_FAILED")

\* Callback of the direct zip command with err: one error, return.
ZipExecErr(r, m) ==
  /\ reqs[r].ph = "zip"
  /\ reqs' = [reqs EXCEPT ![r].ph = "done",
                ![r].emits = Emit(r, "sftp-error", <<"Failed to create zip: ", m>>,
                                  "execcb")]
  /\ UNCHANGED <<sshConnections, conns, sockets, last, tvars>>

\* Callback of the direct zip command with its stream: handlers installed.
ZipExecStream(r) ==
  /\ reqs[r].ph = "zip" /\ ~Ended(reqs[r].conn)
  /\ reqs' = [reqs EXCEPT ![r].ph = "zipstream"]
  /\ UNCHANGED <<sshConnections, conns, sockets, last, tvars>>

\* stream.on('data'): commandOutput += data
ZipData(r, tok) ==
  /\ reqs[r].ph = "zipstream"
  /\ Len(reqs[r].out) + Len(reqs[r].errout) < MaxChunks
  /\ reqs' = [reqs EXCEPT ![r].out = Append(@, tok)]
  /\ UNCHANGED <<sshConnections, conns, sockets, last, tvars>>

\* stream.stderr.on('data'): errorOutput += data
ZipErrData(r, tok) ==
  /\ reqs[r].ph = "zipstream"
  /\ Len(reqs[r].out) + Len(reqs[r].errout) < MaxChunks
  /\ reqs' = [reqs EXCEPT ![r].errout = Append(@, tok)]
  /\ UNCHANGED <<sshConnections, conns, sockets, last, tvars>>

\* Mutant of ZipClose: the retry is run whatever the direct command returned.
ZipCloseAlwaysRetries(r, code) ==
  /\ reqs[r].ph = "zipstream"
  /\ reqs' = [reqs EXCEPT ![r].code = code, ![r].nexec = @ + 1, ![r].ph = "retry"]
  /\ UNCHANGED <<sshConnections, conns, sockets, last, tvars>>

\* stream.on('close', code) of the direct command: zip-complete, or on failure
\* the retry through /tmp.  On a Client that has been ended conn.exec either
\* throws or calls back with an error.
ZipClose(r, code) ==
  /\ reqs[r].ph = "zipstream"
  /\ IF ZipFailed(code, reqs[r].out)
     THEN \E outcome \in (IF Ended(reqs[r].conn) THEN {"retry", "threw"}
                          ELSE {"retry"}) :
            reqs' = [reqs EXCEPT ![r].code = code, ![r].nexec = @ + 1,
                                 ![r].ph = outcome,
                                 ![r].exc = IF outcome = "threw"
                                            THEN "Not connected" ELSE "none"]
     ELSE reqs' = [reqs EXCEPT ![r].code = code, ![r].ph = "done",
                     ![r].emits = Emit(r, "zip-complete",
                                       PayloadShape("zip-directory"), "execclose")]
  /\ UNCHANGED <<sshConnections, conns, sockets, last, tvars>>

\* Callback of the retry with err: one error, return.
RetryExecErr(r, m) ==
  /\ reqs[r].ph = "retry"
  /\ reqs' = [reqs EXCEPT ![r].ph = "done",
                ![r].emits = Emit(r, "sftp-error", <<"Failed to create zip: ", m>>,
                                  "retrycb")]
  /\ UNCHANGED <<sshConnections, conns, sockets, last, tvars>>

\* Callback of the retry with its stream (sudoStream): handlers installed.
RetryExecStream(r) ==
  /\ reqs[r].ph = "retry" /\ ~Ended(reqs[r].conn)
  /\ reqs' = [reqs EXCEPT ![r].ph = "retrystream"]
  /\ UNCHANGED <<sshConnections, conns, sockets, last, tvars>>

\* sudoStream.on('data'): sudoOutput += data
RetryData(r, tok) ==
  /\ reqs[r].ph = "retrystream"
  /\ Len(reqs[r].out2) + Len(reqs[r].errout2) < MaxChunks
  /\ reqs' = [reqs EXCEPT ![r].out2 = Append(@, tok)]
  /\ UNCHANGED <<sshConnections, conns, sockets, last, tvars>>

\* The retry writes to its standard error: sudoStream.stderr has no handler,
\* so the text reaches no variable of the server; errout2 keeps what was
\* written.
RetryErrData(r, tok) ==
  /\ reqs[r].ph = "retrystream"
  /\ Len(reqs[r].out2) + Len(reqs[r].errout2) < MaxChunks
  /\ reqs' = [reqs EXCEPT ![r].errout2 = Append(@, tok)]
  /\ UNCHANGED <<sshConnections, conns, sockets, last, tvars>>

\* sudoStream.on('close', sudoCode): the error with errorOutput of the direct
\* command, or zip-complete.
RetryClose(r, code) ==
  /\ reqs[r].ph = "retrystream"
  /\ reqs' = [reqs EXCEPT ![r].ph = "done", ![r].code2 = code,
                ![r].emits =
                  IF RetryFailed(code, reqs[r].out2)
                  THEN Emit(r, "sftp-error",
                            <<"Failed to create zip file: ">> \o reqs[r].errout,
                            "retryclose")
                  ELSE Emit(r, "zip-complete", PayloadShape("zip-directory"),
                            "retryclose")]
  /\ UNCHANGED <<sshConnections, conns, sockets, last, tvars>>

\* ------------------------------------------------------------- shell relay

\* Command texts a client may submit.
Commands == {"ls", "pwd"}

\* Bytes of remote output: 0x61 is the letter a; 0xC3 0xA9 is the two-byte
\* UTF-8 encoding of e-acute, 0xC3 its lead byte and 0xA9 its continuation.
Bytes == {"61", "C3", "A9"}

\* A chunk is whatever run of bytes the channel delivers at once.
OutChunks == UNION {[1..n -> Bytes] : n \in {1, 2}}
ErrChunks == {<<"61">>, <<"C3">>}

\* Buffer.toString('utf8'): each complete sequence becomes its character; a
\* lead byte without its continuation and a continuation without its lead
\* byte each become the replacement character U+FFFD.
RECURSIVE Utf8ToString(_)
Utf8ToString(bytes) ==
  IF bytes = <<>> THEN <<>>
  ELSE IF Head(bytes) = "61" THEN <<"a">> \o Utf8ToString(Tail(bytes))
  ELSE IF Head(bytes) = "C3" /\ Len(bytes) >= 2 /\ bytes[2] = "A9"
  THEN <<"e-acute">> \o Utf8ToString(Tail(Tail(bytes)))
  ELSE <<"U+FFFD">> \o Utf8ToString(Tail(bytes))

\* sshConnections[sessionId] && sshConnections[sessionId].stream
HasStream(s) == sshConnections[s] # 0 /\ conns[sshConnections[s]].kind = "ssh"

\* Mutant of CommandLine: the line terminator is left out.
CommandLineBare(cmd) == <<cmd>>

\* command + '\n'
CommandLine(cmd) == <<cmd, "\n">>

\* socket.on('command'): the line is written to the record's shell stream, or
\* 'No active SSH connection' is sent when the record holds none.
\* Mutant of Command: the command is written whether or not a stream is
\* registered.
CommandAlwaysWrites(k, cmd) ==
  /\ sockets[k].up
  /\ Len(term.submitted) < MaxCmds
  /\ term' = [term EXCEPT
               !.submitted = Append(@, [cmd |-> cmd, sid |-> sockets[k].sid]),
               !.written = Append(@, CommandLine(cmd))]
  /\ UNCHANGED <<sshConnections, conns, sockets, last, reqs, esc, backupsDir>>

Command(k, cmd) ==
  /\ sockets[k].up
  /\ Len(term.submitted) < MaxCmds
  /\ term' = [term EXCEPT
               !.submitted = Append(@, [cmd |-> cmd, sid |-> sockets[k].sid]),
               !.written = IF HasStream(sockets[k].sid)
                           THEN Append(@, CommandLine(cmd)) ELSE @,
               !.errors = IF HasStream(sockets[k].sid) THEN @
                          ELSE Append(@, <<"No active SSH connection">>)]
  /\ UNCHANGED <<sshConnections, conns, sockets, last, reqs, esc, backupsDir>>

\* Mutant of StreamData: the buffer is not cleared after the emit.
StreamDataKeepsBuffer(c, chunk) ==
  /\ conns[c].kind = "ssh" /\ conns[c].st = "open"
  /\ ~conns[c].sclosed /\ ~conns[c].closed
  /\ Len(term.chunks) + Len(term.errchunks) < MaxOut
  /\ LET buffer == term.dataBuffer \o Utf8ToString(chunk) IN
     term' = [term EXCEPT !.chunks = Append(@, chunk),
                          !.responses = Append(@, buffer),
                          !.dataBuffer = buffer]
  /\ UNCHANGED <<sshConnections, conns, sockets, last, reqs, esc, backupsDir>>

\* stream.on('data'): the chunk is decoded and appended to dataBuffer, the
\* buffer is sent as one 'response', and the buffer is cleared.
StreamData(c, chunk) ==
  /\ conns[c].kind = "ssh" /\ conns[c].st = "open"
  /\ ~conns[c].sclosed /\ ~conns[c].closed
  /\ Len(term.chunks) + Len(term.errchunks) < MaxOut
  /\ LET buffer == term.dataBuffer \o Utf8ToString(chunk) IN
     term' = [term EXCEPT !.chunks = Append(@, chunk),
                          !.responses = Append(@, buffer),
                          !.dataBuffer = <<>>]
  /\ UNCHANGED <<sshConnections, conns, sockets, last, reqs, esc, backupsDir>>

\* stream.stderr.on('data'): the chunk is decoded and sent as an 'error'.
StreamStderr(c, chunk) ==
  /\ conns[c].kind = "ssh" /\ conns[c].st = "open"
  /\ ~conns[c].sclosed /\ ~conns[c].closed
  /\ Len(term.chunks) + Len(term.errchunks) < MaxOut
  /\ term' = [term EXCEPT !.errchunks = Append(@, chunk),
                          !.errors = Append(@, Utf8ToString(chunk))]
  /\ UNCHANGED <<sshConnections, conns, sockets, last, reqs, esc, backupsDir>>

\* ------------------------------------------------------- HTTP file endpoints

\* Mutant of HttpStatus: the registry is not consulted.
HttpStatusNoLookup(op, args) ==
  IF ~args.path \/ args.sid = 0 \/ (op = "POST /file/save" /\ ~args.content)
  THEN 400 ELSE 0

\* The two early returns of an endpoint: 400 when path or sessionId (for
\* /file/save also content) is missing, 404 when the session has no record
\* holding an sftp handle; 0 stands for neither.
HttpStatus(op, args) ==
  IF ~args.path \/ args.sid = 0 \/ (op = "POST /file/save" /\ ~args.content)
  THEN 400
  ELSE IF ~HasSftp(args.sid) THEN 404 ELSE 0

\* What a request can carry: a sessionId (0 when missing), a path or none, a
\* content or none, and whether req.session.isAuthenticated is set.
HttpArgs ==
  [sid : SessionIds \cup {0}, path : BOOLEAN, content : BOOLEAN, authed : BOOLEAN]

\* An endpoint behind isAuthenticated: a redirect to /login without a login;
\* otherwise the early returns, or the first SFTP call of the transfer
\* (createReadStream, readdir, createWriteStream) on the record's handle.
HttpRequest(op, args) ==
  /\ Len(reqs) < MaxReqs
  /\ LET e == IF args.sid = 0 THEN 0 ELSE sshConnections[args.sid]
         r == [NewRequest(0, op, e) EXCEPT !.args = args]
         status == HttpStatus(op, args) IN
     reqs' = Append(reqs,
       IF ~args.authed THEN [r EXCEPT !.status = 302]
       ELSE IF status # 0 THEN [r EXCEPT !.status = status]
       ELSE [r EXCEPT !.ph = "transfer", !.remote = 1,
                      !.mode = IF op = "POST /file/save" THEN DefaultMode ELSE 0,
                      !.arch.outstanding =
                        IF op = "POST /file/zip-download" THEN 1 ELSE 0])
  /\ UNCHANGED <<sshConnections, conns, sockets, last, tvars>>

\* app.get('/file/download')
FileDownload(args) == HttpRequest("GET /file/download", args)

\* app.post('/file/zip-download')
FileZipDownload(args) == HttpRequest("POST /file/zip-download", args)

\* app.get('/file/content')
FileContent(args) == HttpRequest("GET /file/content", args)

\* app.post('/file/save')
FileSave(args) == HttpRequest("POST /file/save", args)

\* ------------------------------------------------- shell command synthesis

\* A command string is a sequence of symbols: the quote, the backslash, the
\* blank, the control operators, and symbols that stand for a run of ordinary
\* characters (a letter of a path, a command name, a sentinel).
Quote == "\""
Backslash == "\\"
Blank == " "
PathChars == {"a", "/", Quote, Backslash}
Paths == UNION {[1..n -> PathChars] : n \in 1..MaxPathLen}

\* path.replace(/"/g, '\\"'): a backslash is put before every double quote.
RECURSIVE EscapeQuotes(_)
EscapeQuotes(path) ==
  IF path = <<>> THEN <<>>
  ELSE (IF Head(path) = Quote THEN <<Backslash, Quote>> ELSE <<Head(path)>>)
       \o EscapeQuotes(Tail(path))

\* "${...}" in a template literal: the text between two double quotes.
Quoted(text) == <<Quote>> \o text \o <<Quote>>

\* Index of the last '/' of path, 0 when there is none (lastIndexOf + 1).
LastSlash(path) ==
  LET at == {i \in 1..Len(path) : path[i] = "/"} IN
  IF at = {} THEN 0 ELSE CHOOSE i \in at : \A j \in at : j <= i

\* path.split('/').pop() || 'folder'
DirName(path) ==
  LET tail == SubSeq(path, LastSlash(path) + 1, Len(path)) IN
  IF tail = <<>> THEN <<"folder">> ELSE tail

\* path.substring(0, path.lastIndexOf('/') + 1) || '/'
CurrentDir(path) ==
  IF LastSlash(path) = 0 THEN <<"/">> ELSE SubSeq(path, 1, LastSlash(path))

\* `${dirName}-${timestamp}.zip`
ZipFileName(path) == DirName(path) \o <<"-", "timestamp", ".zip">>

\* The path the rename handler is given beside the one under study.
OtherPath == <<"b">>

\* /tmp/sftp_temp_${Date.now()}
TempPath == <<"/tmp/sftp_temp_", "timestamp">>

CommandOps ==
  {"rm -rf", "rm", "mv from", "mv to", "mkdir -p", "cat", "save", "zip", "zip tmp"}

\* The command string each conn.exec call is given for a path.
CommandFor(op, path) ==
  CASE op = "rm -rf" ->
         <<"rm", Blank, "-rf", Blank>> \o Quoted(EscapeQuotes(path))
         \o <<Blank, "||", Blank, "echo", Blank>> \o Quoted(<<"RM_FAILED">>)
    [] op = "rm" ->
         <<"rm", Blank>> \o Quoted(EscapeQuotes(path))
         \o <<Blank, "||", Blank, "echo", Blank>> \o Quoted(<<"RM_FAILED">>)
    [] op = "mv from" ->
         <<"mv", Blank>> \o Quoted(EscapeQuotes(path)) \o <<Blank>>
         \o Quoted(EscapeQuotes(OtherPath))
         \o <<Blank, "||", Blank, "echo", Blank>> \o Quoted(<<"MV_FAILED">>)
    [] op = "mv to" ->
         <<"mv", Blank>> \o Quoted(EscapeQuotes(OtherPath)) \o <<Blank>>
         \o Quoted(EscapeQuotes(path))
         \o <<Blank, "||", Blank, "echo", Blank>> \o Quoted(<<"MV_FAILED">>)
    [] op = "mkdir -p" ->
         <<"mkdir", Blank, "-p", Blank>> \o Quoted(EscapeQuotes(path))
         \o <<Blank, "||", Blank, "echo", Blank>> \o Quoted(<<"MKDIR_FAILED">>)
    [] op = "cat" ->
         <<"cat", Blank>> \o Quoted(EscapeQuotes(path))
    [] op = "save" ->
         <<"here-document", Blank, "&&", Blank, "mv", Blank>> \o Quoted(TempPath)
         \o <<Blank>> \o Quoted(EscapeQuotes(path))
         \o <<Blank, "||", Blank, "echo", Blank>> \o Quoted(<<"WRITE_FAILED">>)
    [] op = "zip" ->
         <<"zip", Blank, "-r", Blank>>
         \o Quoted(CurrentDir(path) \o ZipFileName(path)) \o <<Blank>>
         \o Quoted(path)
         \o <<Blank, "||", Blank, "echo", Blank>> \o Quoted(<<"ZIP_FAILED">>)
    [] OTHER ->
         <<"zip", Blank, "-r", Blank>>
         \o Quoted(<<"/tmp/">> \o ZipFileName(path)) \o <<Blank>>
         \o Quoted(path)
         \o <<Blank, "&&", Blank, "cp", Blank>>
         \o Quoted(<<"/tmp/">> \o ZipFileName(path)) \o <<Blank>>
         \o Quoted(CurrentDir(path))
         \o <<Blank, "&&", Blank, "rm", Blank>>
         \o Quoted(<<"/tmp/">> \o ZipFileName(path))
         \o <<Blank, "||", Blank, "echo", Blank>> \o Quoted(<<"TEMP_ZIP_FAILED">>)

\* A handler builds the command for the path it was given.
Synthesize(op) ==
  /\ esc.op = "none"
  /\ esc' = [esc EXCEPT !.op = op, !.cmd = CommandFor(op, esc.path)]
  /\ UNCHANGED <<sshConnections, conns, sockets, last, reqs, term, backupsDir>>

\* ------------------------------------------------------------ specifications

\* The handlers acting on the registry; the teardown history is not recorded.
Next ==
  \/ \E s \in Sessions : SocketConnect(s) /\ UNCHANGED <<last, reqs, tvars>>
  \/ \E k \in SockIds : ConnectSsh(k, NoPath) /\ UNCHANGED <<last, reqs, tvars>>
  \/ \E k \in SockIds : ConnectSftp(k) /\ UNCHANGED <<last, reqs, tvars>>
  \/ \E c \in ConnIds : ConnReady(c) /\ UNCHANGED <<last, reqs, tvars>>
  \/ \E c \in ConnIds : ConnError(c) /\ UNCHANGED <<last, reqs, tvars>>
  \/ \E c \in ConnIds : ShellFail(c) /\ UNCHANGED <<last, reqs, tvars>>
  \/ \E c \in ConnIds : ShellOpened(c) /\ UNCHANGED <<last, reqs, esc, backupsDir>>
  \/ \E c \in ConnIds : SftpFail(c) /\ UNCHANGED <<last, reqs, tvars>>
  \/ \E c \in ConnIds : SftpOpened(c) /\ UNCHANGED <<last, reqs, tvars>>
  \/ \E c \in ConnIds : StreamClose(c) /\ UNCHANGED <<last, reqs, tvars>>
  \/ \E c \in ConnIds : ConnClose(c) /\ UNCHANGED <<last, reqs, tvars>>
  \/ \E k \in SockIds : SocketDisconnect(k) /\ UNCHANGED <<last, reqs, tvars>>
  \/ \E s \in Sessions : RouteDisconnect(s) /\ UNCHANGED <<last, reqs, tvars>>
  \/ \E s \in Sessions : RouteLogout(s) /\ UNCHANGED <<last, reqs, tvars>>

Spec == Init /\ [][Next]_vars

\* The same handlers with the teardown history recorded.
NextTeardown ==
  \/ \E s \in Sessions : SocketConnect(s) /\ last' = NoTeardown /\ UNCHANGED <<reqs, tvars>>
  \/ \E k \in SockIds : ConnectSsh(k, NoPath) /\ last' = NoTeardown /\ UNCHANGED <<reqs, tvars>>
  \/ \E k \in SockIds : ConnectSftp(k) /\ last' = NoTeardown /\ UNCHANGED <<reqs, tvars>>
  \/ \E c \in ConnIds : ConnReady(c) /\ last' = NoTeardown /\ UNCHANGED <<reqs, tvars>>
  \/ \E c \in ConnIds : ConnError(c) /\ last' = NoTeardown /\ UNCHANGED <<reqs, tvars>>
  \/ \E c \in ConnIds : ShellFail(c) /\ last' = NoTeardown /\ UNCHANGED <<reqs, tvars>>
  \/ \E c \in ConnIds : ShellOpened(c) /\ last' = NoTeardown /\ UNCHANGED <<reqs, esc, backupsDir>>
  \/ \E c \in ConnIds : SftpFail(c) /\ last' = NoTeardown /\ UNCHANGED <<reqs, tvars>>
  \/ \E c \in ConnIds : SftpOpened(c) /\ last' = NoTeardown /\ UNCHANGED <<reqs, tvars>>
  \/ \E c \in ConnIds : StreamClose(c) /\ last' = NoTeardown /\ UNCHANGED <<reqs, tvars>>
  \/ \E c \in ConnIds : ConnClose(c) /\ last' = NoTeardown /\ UNCHANGED <<reqs, tvars>>
  \/ \E k \in SockIds :
       /\ SocketDisconnect(k)
       /\ LET s == sockets[k].sid
              e == sshConnections[s] IN
          last' = Teardown("socket", s, e, FALSE, IF e # 0 THEN 1 ELSE 0)
       /\ UNCHANGED <<reqs, tvars>>
  \/ \E s \in Sessions :
       /\ RouteDisconnect(s)
       /\ last' = Teardown("disconnect", s, sshConnections[s], RouteThrows(s), 0)
       /\ UNCHANGED <<reqs, tvars>>
  \/ \E s \in Sessions :
       /\ RouteLogout(s)
       /\ last' = Teardown("logout", s, sshConnections[s], RouteThrows(s), 0)
       /\ UNCHANGED <<reqs, tvars>>

SpecTeardown == Init /\ [][NextTeardown]_vars

\* The coordinator on a session whose connect-sftp has completed: one socket,
\* one Client with its sftp handle stored in the registry (a state Spec reaches
\* by SocketConnect, ConnectSftp, ConnReady, SftpOpened).  The transport may
\* close under the requests in flight.
InitFile ==
  /\ sockets = <<[sid |-> 1, up |-> TRUE]>>
  /\ conns = <<[ sid |-> 1, sock |-> 1, kind |-> "sftp", st |-> "open",
                 ends |-> 0, closed |-> FALSE, sclosed |-> FALSE,
                 estab |-> "unregistered", connected |-> TRUE, errs |-> 0,
                 connects |-> 1, initialPath |-> "none" ]>>
  /\ sshConnections = [InitRegistry EXCEPT ![1] = 1]
  /\ last = NoTeardown
  /\ reqs = <<>>
  /\ term = NoTerm
  /\ esc = NoCommand
  /\ backupsDir = NoBackups

NextFile ==
  \/ \E k \in SockIds, d \in BOOLEAN : DeleteFile(k, d)
  \/ \E k \in SockIds : RenameFile(k)
  \/ \E k \in SockIds : CreateFolder(k)
  \/ \E k \in SockIds : ReadFile(k)
  \/ \E k \in SockIds : SaveFile(k)
  \/ \E r \in ReqIds : StructuredOk(r)
  \/ \E r \in ReqIds, m \in ErrMsgs : StructuredErr(r, m)
  \/ \E r \in ReqIds : ReadEnd(r)
  \/ \E r \in ReqIds, m \in ErrMsgs : ReadError(r, m)
  \/ \E r \in ReqIds, stats \in StatResults : StatDone(r, stats)
  \/ \E r \in ReqIds, m \in ErrMsgs : WriteError(r, m)
  \/ \E r \in ReqIds : WriteClose(r)
  \/ \E r \in ReqIds, m \in ShellErrMsgs : ExecCallbackErr(r, m)
  \/ \E r \in ReqIds : ExecCallbackStream(r)
  \/ \E r \in ReqIds : \E tok \in StdoutChunks(reqs[r].op) : ExecData(r, tok)
  \/ \E r \in ReqIds : \E tok \in StderrChunks(reqs[r].op) : ExecStderr(r, tok)
  \/ \E r \in ReqIds, code \in ExitCodes : ExecClose(r, code)
  \/ \E c \in ConnIds : ConnClose(c) /\ UNCHANGED <<last, reqs, tvars>>

SpecFile == InitFile /\ [][NextFile]_vars

\* Two clients, one socket for each session id, connecting and disconnecting
\* side by side.
InitShare ==
  /\ sshConnections = InitRegistry
  /\ conns = <<>>
  /\ sockets = <<[sid |-> 1, up |-> TRUE], [sid |-> 2, up |-> TRUE]>>
  /\ last = NoTeardown
  /\ reqs = <<>>
  /\ term = NoTerm
  /\ esc = NoCommand
  /\ backupsDir = NoBackups

NextShare ==
  \/ \E k \in SockIds : ConnectSsh(k, NoPath) /\ UNCHANGED <<last, reqs, tvars>>
  \/ \E k \in SockIds : ConnectSftp(k) /\ UNCHANGED <<last, reqs, tvars>>
  \/ \E c \in ConnIds : ConnReady(c) /\ UNCHANGED <<last, reqs, tvars>>
  \/ \E c \in ConnIds : ShellOpened(c) /\ UNCHANGED <<last, reqs, esc, backupsDir>>
  \/ \E c \in ConnIds : SftpOpened(c) /\ UNCHANGED <<last, reqs, tvars>>
  \/ \E c \in ConnIds : StreamClose(c) /\ UNCHANGED <<last, reqs, tvars>>
  \/ \E c \in ConnIds : ConnClose(c) /\ UNCHANGED <<last, reqs, tvars>>
  \/ \E k \in SockIds : SocketDisconnect(k) /\ UNCHANGED <<last, reqs, tvars>>

SpecShare == InitShare /\ [][NextShare]_vars

\* The two save paths of a session whose connect-sftp has completed: the
\* save-file event with its stat, write stream and fallback, and the
\* /file/save endpoint.
NextSave ==
  \/ \E k \in SockIds : SaveFile(k)
  \/ \E args \in HttpArgs : FileSave(args)
  \/ \E r \in ReqIds, stats \in StatResults : StatDone(r, stats)
  \/ \E r \in ReqIds, m \in ErrMsgs : WriteError(r, m)
  \/ \E r \in ReqIds : WriteClose(r)
  \/ \E r \in ReqIds, m \in ShellErrMsgs : ExecCallbackErr(r, m)
  \/ \E r \in ReqIds : ExecCallbackStream(r)
  \/ \E r \in ReqIds : \E tok \in StdoutChunks(reqs[r].op) : ExecData(r, tok)
  \/ \E r \in ReqIds : \E tok \in StderrChunks(reqs[r].op) : ExecStderr(r, tok)
  \/ \E r \in ReqIds, code \in ExitCodes : ExecClose(r, code)

SpecSave == InitFile /\ [][NextSave]_vars

\* Two save-file requests of one session whose stat has been answered and
\* whose write streams are open.
InitTemp ==
  /\ sockets = <<[sid |-> 1, up |-> TRUE]>>
  /\ conns = <<[ sid |-> 1, sock |-> 1, kind |-> "sftp", st |-> "open",
                 ends |-> 0, closed |-> FALSE, sclosed |-> FALSE,
                 estab |-> "unregistered", connected |-> TRUE, errs |-> 0,
                 connects |-> 1, initialPath |-> "none" ]>>
  /\ sshConnections = [InitRegistry EXCEPT ![1] = 1]
  /\ last = NoTeardown
  /\ \E stats \in StatResults :
       LET q == [NewRequest(1, "save-file", 1) EXCEPT
                   !.ph = "structured", !.remote = 2, !.stat = stats,
                   !.mode = IF ~stats.err THEN stats.mode ELSE DefaultMode]
       IN reqs = <<q, q>>
  /\ term = NoTerm
  /\ esc = NoCommand
  /\ backupsDir = NoBackups

NextTemp ==
  \/ \E r \in ReqIds, m \in ErrMsgs : WriteError(r, m)
  \/ \E r \in ReqIds : WriteClose(r)
  \/ \E r \in ReqIds, m \in ShellErrMsgs : ExecCallbackErr(r, m)
  \/ \E r \in ReqIds : ExecCallbackStream(r)
  \/ \E r \in ReqIds : \E tok \in StdoutChunks(reqs[r].op) : ExecData(r, tok)
  \/ \E r \in ReqIds : \E tok \in StderrChunks(reqs[r].op) : ExecStderr(r, tok)
  \/ \E r \in ReqIds, code \in ExitCodes : ExecClose(r, code)

SpecTemp == InitTemp /\ [][NextTemp]_vars

\* The read paths of a session whose connect-sftp has completed: read-file,
\* its read stream with the data it delivers before it ends or fails and the
\* cat fallback, and the /file/content endpoint.
NextRead ==
  \/ \E k \in SockIds : ReadFile(k)
  \/ \E args \in HttpArgs : FileContent(args)
  \/ \E r \in ReqIds, tok \in ReadChunks : ReadData(r, tok)
  \/ \E r \in ReqIds : ReadEnd(r)
  \/ \E r \in ReqIds, m \in ErrMsgs : ReadError(r, m)
  \/ \E r \in ReqIds, m \in ShellErrMsgs : ExecCallbackErr(r, m)
  \/ \E r \in ReqIds : ExecCallbackStream(r)
  \/ \E r \in ReqIds : \E tok \in StdoutChunks(reqs[r].op) : ExecData(r, tok)
  \/ \E r \in ReqIds : \E tok \in StderrChunks(reqs[r].op) : ExecStderr(r, tok)
  \/ \E r \in ReqIds, code \in ExitCodes : ExecClose(r, code)
  \/ \E c \in ConnIds : ConnClose(c) /\ UNCHANGED <<last, reqs, tvars>>

SpecRead == InitFile /\ [][NextRead]_vars

\* /file/zip-download on a session whose connect-sftp has completed.
NextArchive ==
  \/ \E args \in HttpArgs : reqs = <<>> /\ FileZipDownload(args)
  \/ \E r \in ReqIds, list \in DirLists : ReaddirOk(r, list)
  \/ \E r \in ReqIds : ReaddirErr(r)
  \/ \E r \in ReqIds : EntryEnd(r)
  \/ \E r \in ReqIds, outcome \in EntryFailures : EntryError(r, outcome)
  \/ \E r \in ReqIds : ArchiveEnd(r)

SpecArchive == InitFile /\ [][NextArchive]_vars

\* connect-ssh with a requested working directory, and the commands the
\* client submits around it.
InitCd ==
  /\ sshConnections = InitRegistry
  /\ conns = <<>>
  /\ sockets = <<[sid |-> 1, up |-> TRUE]>>
  /\ last = NoTeardown
  /\ reqs = <<>>
  /\ term = NoTerm
  /\ esc = NoCommand
  /\ backupsDir = NoBackups

NextCd ==
  \/ \E k \in SockIds, p \in InitialPaths :
       ConnectSsh(k, p) /\ UNCHANGED <<last, reqs, tvars>>
  \/ \E c \in ConnIds : ConnReady(c) /\ UNCHANGED <<last, reqs, tvars>>
  \/ \E c \in ConnIds : ShellOpened(c) /\ UNCHANGED <<last, reqs, esc, backupsDir>>
  \/ \E k \in SockIds, cmd \in Commands : Command(k, cmd)
  \/ \E c \in ConnIds : StreamClose(c) /\ UNCHANGED <<last, reqs, tvars>>

SpecCd == InitCd /\ [][NextCd]_vars

\* The 'command' event in every state of a session: nothing connected, a
\* connect in flight, a shell or only a file capability registered, closed.
NextNoShell ==
  \/ \E k \in SockIds : ConnectSsh(k, NoPath) /\ UNCHANGED <<last, reqs, tvars>>
  \/ \E k \in SockIds : ConnectSftp(k) /\ UNCHANGED <<last, reqs, tvars>>
  \/ \E c \in ConnIds : ConnReady(c) /\ UNCHANGED <<last, reqs, tvars>>
  \/ \E c \in ConnIds : ShellOpened(c) /\ UNCHANGED <<last, reqs, esc, backupsDir>>
  \/ \E c \in ConnIds : SftpOpened(c) /\ UNCHANGED <<last, reqs, tvars>>
  \/ \E k \in SockIds, cmd \in Commands : Command(k, cmd)
  \/ \E c \in ConnIds : ConnClose(c) /\ UNCHANGED <<last, reqs, tvars>>

SpecNoShell == InitCd /\ [][NextNoShell]_vars

\* delete-file, rename-file and read-file on a session whose connect-sftp
\* has completed, with the structured call and the start of the fallback
\* free to fail.
NextStart ==
  \/ \E k \in SockIds, d \in BOOLEAN : DeleteFile(k, d)
  \/ \E k \in SockIds : RenameFile(k)
  \/ \E k \in SockIds : ReadFile(k)
  \/ \E r \in ReqIds : StructuredOk(r)
  \/ \E r \in ReqIds, m \in ErrMsgs : StructuredErr(r, m)
  \/ \E r \in ReqIds : ReadEnd(r)
  \/ \E r \in ReqIds, m \in ErrMsgs : ReadError(r, m)
  \/ \E r \in ReqIds, m \in ShellErrMsgs : ExecCallbackErr(r, m)
  \/ \E r \in ReqIds : ExecCallbackStream(r)
  \/ \E r \in ReqIds : \E tok \in StdoutChunks(reqs[r].op) : ExecData(r, tok)
  \/ \E r \in ReqIds : \E tok \in StderrChunks(reqs[r].op) : ExecStderr(r, tok)
  \/ \E r \in ReqIds, code \in ExitCodes : ExecClose(r, code)
  \/ \E c \in ConnIds : ConnClose(c) /\ UNCHANGED <<last, reqs, tvars>>

SpecStart == InitFile /\ [][NextStart]_vars

\* zip-directory on a session whose connect-sftp has completed, one request
\* at a time; the transport may close under it.
NextZip ==
  \/ \E k \in SockIds : reqs = <<>> /\ ZipDirectory(k)
  \/ \E r \in ReqIds, m \in ShellErrMsgs : ZipExecErr(r, m)
  \/ \E r \in ReqIds : ZipExecStream(r)
  \/ \E r \in ReqIds, tok \in ZipStdout : ZipData(r, tok)
  \/ \E r \in ReqIds, tok \in ZipStderr : ZipErrData(r, tok)
  \/ \E r \in ReqIds, code \in ExitCodes : ZipClose(r, code)
  \/ \E r \in ReqIds, m \in ShellErrMsgs : RetryExecErr(r, m)
  \/ \E r \in ReqIds : RetryExecStream(r)
  \/ \E r \in ReqIds, tok \in RetryStdout : RetryData(r, tok)
  \/ \E r \in ReqIds, tok \in RetryStderr : RetryErrData(r, tok)
  \/ \E r \in ReqIds, code \in ExitCodes : RetryClose(r, code)
  \/ \E c \in ConnIds : ConnClose(c) /\ UNCHANGED <<last, reqs, tvars>>

SpecZip == InitFile /\ [][NextZip]_vars

\* The guards of the file operations: a session whose record holds a shell
\* stream or an sftp handle (its connect-ssh or connect-sftp has completed),
\* the transport free to close, and the requests as they arrive.
InitGuard ==
  /\ sockets = <<[sid |-> 1, up |-> TRUE]>>
  /\ \E kind \in {"ssh", "sftp"} :
       conns = <<[ sid |-> 1, sock |-> 1, kind |-> kind, st |-> "open",
                   ends |-> 0, closed |-> FALSE, sclosed |-> FALSE,
                   estab |-> "unregistered", connected |-> TRUE, errs |-> 0,
                   connects |-> 1, initialPath |-> "none" ]>>
  /\ sshConnections = [InitRegistry EXCEPT ![1] = 1]
  /\ last = NoTeardown
  /\ reqs = <<>>
  /\ term = NoTerm
  /\ esc = NoCommand
  /\ backupsDir = NoBackups

NextGuard ==
  \/ \E k \in SockIds : ListDirectory(k)
  \/ \E k \in SockIds : ZipDirectory(k)
  \/ \E k \in SockIds : UploadFile(k)
  \/ \E k \in SockIds, d \in BOOLEAN : DeleteFile(k, d)
  \/ \E k \in SockIds : RenameFile(k)
  \/ \E k \in SockIds : CreateFolder(k)
  \/ \E k \in SockIds : ReadFile(k)
  \/ \E k \in SockIds : SaveFile(k)
  \/ \E args \in HttpArgs : FileDownload(args)
  \/ \E args \in HttpArgs : FileZipDownload(args)
  \/ \E args \in HttpArgs : FileContent(args)
  \/ \E args \in HttpArgs : FileSave(args)
  \/ \E c \in ConnIds : ConnClose(c) /\ UNCHANGED <<last, reqs, tvars>>

SpecGuard == InitGuard /\ [][NextGuard]_vars

\* The relay of a session in Ready: its connect-ssh has completed, the record
\* holds the shell stream, and nothing has been written or received yet (no
\* initialPath).  Commands and remote output arrive in any order, and the
\* stream, the transport and the client may go away under them.
InitShell ==
  /\ sockets = <<[sid |-> 1, up |-> TRUE]>>
  /\ conns = <<[ sid |-> 1, sock |-> 1, kind |-> "ssh", st |-> "open",
                 ends |-> 0, closed |-> FALSE, sclosed |-> FALSE,
                 estab |-> "unregistered", connected |-> TRUE, errs |-> 0,
                 connects |-> 1, initialPath |-> "none" ]>>
  /\ sshConnections = [InitRegistry EXCEPT ![1] = 1]
  /\ last = NoTeardown
  /\ reqs = <<>>
  /\ term = NoTerm
  /\ esc = NoCommand
  /\ backupsDir = NoBackups

NextShell ==
  \/ \E k \in SockIds, cmd \in Commands : Command(k, cmd)
  \/ \E c \in ConnIds, chunk \in OutChunks : StreamData(c, chunk)
  \/ \E c \in ConnIds, chunk \in ErrChunks : StreamStderr(c, chunk)
  \/ \E c \in ConnIds : StreamClose(c) /\ UNCHANGED <<last, reqs, tvars>>
  \/ \E c \in ConnIds : ConnClose(c) /\ UNCHANGED <<last, reqs, tvars>>
  \/ \E k \in SockIds : SocketDisconnect(k) /\ UNCHANGED <<last, reqs, tvars>>

SpecShell == InitShell /\ [][NextShell]_vars

\* Command synthesis as a function of the path: any path may be requested.
InitEscape ==
  /\ sshConnections = InitRegistry
  /\ conns = <<>>
  /\ sockets = <<>>
  /\ last = NoTeardown
  /\ reqs = <<>>
  /\ term = NoTerm
  /\ esc \in {[NoCommand EXCEPT !.path = p] : p \in Paths}
  /\ backupsDir = NoBackups

NextEscape == \E op \in CommandOps : Synthesize(op)

SpecEscape == InitEscape /\ [][NextEscape]_vars

\* The coordinator with the client free to disconnect under the requests in
\* flight, and the listing and upload handlers beside the five operations.
NextCancel ==
  \/ NextFile
  \/ \E k \in SockIds : ListDirectory(k)
  \/ \E k \in SockIds : UploadFile(k)
  \/ \E r \in ReqIds : ListOk(r)
  \/ \E r \in ReqIds, m \in ErrMsgs : ListErr(r, m)
  \/ \E r \in ReqIds, m \in ErrMsgs : UploadError(r, m)
  \/ \E r \in ReqIds : UploadClose(r)
  \/ \E k \in SockIds : SocketDisconnect(k) /\ UNCHANGED <<last, reqs, tvars>>

SpecCancel == InitFile /\ [][NextCancel]_vars

\* ------------------------------------------------- scripts/backup.js: pruning
\* Time is counted in days on a calendar of twelve months of thirty days; an
\* instant is its day number, and the first day (day 0) is a Sunday.
MaxSlot == 10
Today == 400
KeepAll == 7
RecentDays == 7

\* The fields year, month (from 0) and day of month (from 1) of a day number.
DateFields(n) == << n \div 360, (n % 360) \div 30, (n % 30) + 1 >>
DayNumber(f) == f[1] * 360 + f[2] * 30 + (f[3] - 1)

\* A date text: its date fields, the separator between them, whether a time
\* of day follows the 'T', and the separator between the time's fields.
\* toISOString() joins the date by '-' and the time by ':'.
ToISOString(n) ==
  [ date |-> DateFields(n), dsep |-> "-", time |-> TRUE, tsep |-> ":" ]

\* text.replace(/from/g, to): every occurrence, in the date and in the time.
ReplaceAll(text, from, to) ==
  [ text EXCEPT !.dsep = IF @ = from THEN to ELSE @,
                !.tsep = IF @ = from THEN to ELSE @ ]

\* text.split('T')[0]
BeforeT(text) == [ text EXCEPT !.time = FALSE ]

\* `ssh-client-backup-${timestamp}.zip`, the timestamp being the ISO text
\* with its colons replaced by hyphens.
BackupFilename(n) == ReplaceAll(ToISOString(n), ":", "-")

\* new Date(text): the ISO forms YYYY-MM-DD and YYYY-MM-DDTHH:MM:SSZ are read;
\* any other text gives the Invalid Date, whose time value is NaN.
InvalidDate == [ valid |-> FALSE, t |-> 0 ]
DateParse(text) ==
  IF text.dsep = "-" /\ (text.time => text.tsep = ":")
    THEN [ valid |-> TRUE, t |-> DayNumber(text.date) ]
    ELSE InvalidDate

\* a >= b and a < b on Dates: false when either side is NaN.
DateGe(a, b) == a.valid /\ b.valid /\ a.t >= b.t
DateLt(a, b) == a.valid /\ b.valid /\ a.t < b.t

\* The date and timestamp the script reads back from a file name.
BackupDate(file) == DateParse(BeforeT(file))
BackupTimestamp(file) == DateParse(ReplaceAll(file, "-", ":"))

\* sevenDaysAgo.setDate(now.getDate() - 7); oneMonthAgo.setMonth(now.getMonth() - 1)
SevenDaysAgo(now) == [ valid |-> TRUE, t |-> now - RecentDays ]
OneMonthAgo(now) == [ valid |-> TRUE, t |-> now - 30 ]

\* getWeekNumber(date): the number, within its year, of the week of the
\* Thursday nearest to the date.
GetWeekNumber(date) ==
  LET dayNum == IF date.t % 7 = 0 THEN 7 ELSE date.t % 7
      d == date.t + 4 - dayNum
      yearStart == (d \div 360) * 360
  IN  ((d - yearStart) + 1 + 6) \div 7

\* backup.date.getMonth() + '-' + backup.date.getFullYear()
MonthKey(date) == << DateFields(date.t)[2], DateFields(date.t)[1] >>

\* .sort((a, b) => b.timestamp - a.timestamp) on files whose timestamps are
\* valid: newest first.
RECURSIVE NewestFirst(_)
NewestFirst(files) ==
  IF files = {} THEN <<>>
  ELSE LET f == CHOOSE x \in files :
                  \A y \in files : BackupTimestamp(y).t <= BackupTimestamp(x).t
       IN  <<f>> \o NewestFirst(files \ {f})

RecentBackups(files, now) ==
  {f \in files : DateGe(BackupTimestamp(f), SevenDaysAgo(now))}
OlderBackups(files, now) ==
  NewestFirst({f \in files : DateLt(BackupTimestamp(f), SevenDaysAgo(now))})

\* The first backup of every run of one week among the older backups not
\* yet a month old, in newest-first order.
WeeklyBackups(files, now) ==
  LET w == SelectSeq(OlderBackups(files, now),
                     LAMBDA f : DateGe(BackupTimestamp(f), OneMonthAgo(now)))
  IN  {w[i] : i \in {j \in 1..Len(w) :
         j = 1 \/ GetWeekNumber(BackupDate(w[j]))
                    # GetWeekNumber(BackupDate(w[j - 1]))}}

\* The first backup of every run of one month among the backups older than
\* a month.
MonthlyBackups(files, now) ==
  LET m == SelectSeq(OlderBackups(files, now),
                     LAMBDA f : DateLt(BackupTimestamp(f), OneMonthAgo(now)))
  IN  {m[i] : i \in {j \in 1..Len(m) :
         j = 1 \/ MonthKey(BackupDate(m[j])) # MonthKey(BackupDate(m[j - 1]))}}

ToKeep(files, now) ==
  RecentBackups(files, now) \cup WeeklyBackups(files, now)
    \cup MonthlyBackups(files, now)

\* if (backups.length <= 7) return; else every backup not in toKeep.
ToDelete(files, now) ==
  IF Cardinality(files) <= KeepAll THEN {} ELSE files \ ToKeep(files, now)

\* The days before today on which earlier runs may have left an archive.
SlotAge(i) == 4 * i
Slots == 1..MaxSlot

\* output.on('close'): the run's archive is complete in the directory and
\* pruneOldBackups() starts reading the directory.
ArchiveClosed ==
  /\ backupsDir.ph = "archiving"
  /\ backupsDir' = [backupsDir EXCEPT
       !.files = @ \cup {BackupFilename(backupsDir.now)}, !.ph = "reading"]
  /\ UNCHANGED <<cvars, last, reqs, term, esc>>

\* fs.readdir's callback with the directory's files.
PruneOldBackups ==
  /\ backupsDir.ph = "reading"
  /\ LET del == ToDelete(backupsDir.files, backupsDir.now) IN
     backupsDir' = [backupsDir EXCEPT
       !.files = @ \ del, !.unlinked = del, !.ph = "pruned"]
  /\ UNCHANGED <<cvars, last, reqs, term, esc>>

\* fs.readdir's callback with an error: logged, nothing removed.
PruneReaddirErr ==
  /\ backupsDir.ph = "reading"
  /\ backupsDir' = [backupsDir EXCEPT !.ph = "unread"]
  /\ UNCHANGED <<cvars, last, reqs, term, esc>>

\* One run of the script over a directory holding archives of earlier runs.
InitPrune ==
  /\ sshConnections = InitRegistry
  /\ conns = <<>>
  /\ sockets = <<>>
  /\ last = NoTeardown
  /\ reqs = <<>>
  /\ term = NoTerm
  /\ esc = NoCommand
  /\ \E s \in SUBSET Slots :
       backupsDir = [ files |-> {BackupFilename(Today - SlotAge(i)) : i \in s},
                      now |-> Today, ph |-> "archiving", unlinked |-> {} ]

NextPrune == ArchiveClosed \/ PruneOldBackups \/ PruneReaddirErr

SpecPrune == InitPrune /\ [][NextPrune]_vars

\* ------------------------------------------------------------------ claims

ConnsOf(s) == {c \in ConnIds : conns[c].sid = s}
SocketsOf(s) == {k \in SockIds : sockets[k].sid = s}

\* Client c is the only transport ever opened for its session.
Sole(c) == ConnsOf(conns[c].sid) = {c}

\* A callback of Client c is still due: ready/error, the shell or sftp callback,
\* or the close event that follows end().
CallbackPending(c) ==
  \/ conns[c].st \in {"connecting", "ready"}
  \/ conns[c].ends > 0 /\ ~conns[c].closed

\* C1: when a connect completes for a session that already has a registered
\* transport, the transport registered before has been ended (never left open
\* and unregistered).
C1_PriorTransportEnded ==
  [][\A s \in Sessions :
       LET old == sshConnections[s] IN
       (old # 0 /\ sshConnections'[s] # 0 /\ sshConnections'[s] # old)
         => (conns'[old].ends > 0 \/ conns'[old].closed)]_vars

\* C2: once every client channel of a session has disconnected and no transport
\* callback is pending, the session has no registry entry and every transport
\* opened for it has been ended.
C2_DisconnectLeavesNothing ==
  \A s \in Sessions :
    ( /\ SocketsOf(s) # {}
      /\ \A k \in SocketsOf(s) : ~sockets[k].up
      /\ \A c \in ConnsOf(s) : ~CallbackPending(c) )
    => ( /\ sshConnections[s] = 0
         /\ \A c \in ConnsOf(s) : Ended(c) )

\* A teardown event (shell-stream close, transport close, or a client disconnect
\* that found the record) has reached Client c while it was Ready.
TornDown(c) == conns[c].sclosed \/ conns[c].closed \/ conns[c].ends > 0

\* C3: for a session in Ready whose only transport is c, whatever the order of
\* shell-stream close, transport close and client disconnect: end() is called
\* on c at most once, and from the first such event on the transport is ended
\* and the session has no registry entry (before it, the record holds c).
C3_ReadyTornDownOnce ==
  \A c \in ConnIds :
    (Sole(c) /\ conns[c].st = "open")
    => ( /\ conns[c].ends <= 1
         /\ TornDown(c) => (sshConnections[conns[c].sid] = 0 /\ Ended(c))
         /\ ~TornDown(c) => sshConnections[conns[c].sid] = c )

C3_Witness ==
  \E c \in ConnIds :
    /\ Sole(c) /\ conns[c].st = "open" /\ conns[c].kind = "ssh"
    /\ conns[c].sclosed /\ conns[c].closed /\ conns[c].ends = 1
    /\ ~sockets[conns[c].sock].up

\* C4: two teardowns in a row for one session raise no error, end the transport
\* at most once and leave no registry entry.
C4_TeardownIdempotent ==
  last.run = 2
  => ( /\ ~last.runThrew
       /\ last.runEnds <= 1
       /\ sshConnections[last.sid] = 0 )

\* C5: an explicit disconnect (/disconnect or /logout) for a session that has a
\* connection record ends the record's transport, removes the entry and raises
\* no error.
C5_ExplicitDisconnectTearsDown ==
  (last.op \in {"disconnect", "logout"} /\ last.entry # 0)
  => ( /\ ~last.threw
       /\ sshConnections[last.sid] = 0
       /\ conns[last.entry].ends > 0 )

\* C6: a connect whose transport fails to open, or whose shell / SFTP open
\* fails, has sent the client an error notification and never has a registry
\* entry; on a shell / SFTP open failure the transport has been ended.
C6_FailedConnectNotRegistered ==
  \A c \in ConnIds :
    /\ conns[c].st = "connfail"
       => (conns[c].errs >= 1 /\ sshConnections[conns[c].sid] # c)
    /\ conns[c].st = "openfail"
       => ( /\ conns[c].errs >= 1
            /\ conns[c].ends >= 1
            /\ sshConnections[conns[c].sid] # c )

C6_Witness ==
  /\ \E c \in ConnIds : conns[c].st = "connfail" /\ conns[c].closed
  /\ \E c \in ConnIds : conns[c].st = "openfail" /\ conns[c].closed

\* C7 as claimed: the connection-established notification of a shell connect is
\* emitted only once the shell stream is registered, and a connect-ssh whose
\* shell open fails yields an error and no connection-established notification.
C7_EstablishedAfterShell ==
  \A c \in ConnIds :
    conns[c].kind = "ssh"
    => ( /\ conns[c].estab \in {"none", "registered"}
         /\ conns[c].st = "openfail"
            => (conns[c].estab = "none" /\ conns[c].errs >= 1) )

\* C7 as amended: the connection-established message of a shell connect is
\* emitted when the transport reports ready, before the shell stream is opened
\* or registered; a connect-ssh whose shell open fails has yielded that message
\* and then an error notification, and has no registry entry.
C7_EstablishedAtReady ==
  \A c \in ConnIds :
    conns[c].kind = "ssh"
    => ( /\ conns[c].estab \in {"none", "unregistered"}
         /\ conns[c].estab = "unregistered"
            <=> conns[c].st \in {"ready", "open", "openfail"}
         /\ conns[c].st = "openfail"
            => ( /\ conns[c].estab = "unregistered"
                 /\ conns[c].errs >= 1
                 /\ sshConnections[conns[c].sid] # c ) )

C7_Witness ==
  \E c \in ConnIds :
    /\ conns[c].kind = "ssh" /\ conns[c].st = "openfail"
    /\ conns[c].estab = "unregistered" /\ conns[c].errs = 1

\* Notifications of request r sent by the handler `by`.
EmitsBy(r, by) == {i \in 1..Len(reqs[r].emits) : reqs[r].emits[i].by = by}

C9_SentinelOrExitCode ==
  \A r \in ReqIds : \A i \in EmitsBy(r, "execclose") :
    LET q == reqs[r] IN
    /\ q.emits[i].ev \in {"sftp-error", SuccessEvent(q.op)}
    /\ q.emits[i].ev = "sftp-error"
         <=> (q.code # 0 \/ Includes(q.out, Sentinel(q.op)))

C9_Witness ==
  \E r \in ReqIds : \E i \in EmitsBy(r, "execclose") :
    /\ reqs[r].code = 0
    /\ ~Includes(reqs[r].out, Sentinel(reqs[r].op))
    /\ Includes(reqs[r].errout, Sentinel(reqs[r].op))
    /\ reqs[r].emits[i].ev = SuccessEvent(reqs[r].op)

\* C10: when the structured call failed and the fallback command is classified
\* as failed, the client gets one error whose text contains the structured
\* call's error message and the command's standard-error text.
C10_CombinedDiagnostics ==
  \A r \in ReqIds : \A i \in EmitsBy(r, "execclose") :
    LET q == reqs[r] IN
    q.emits[i].ev = "sftp-error"
    => ( /\ Includes(q.emits[i].text, q.serr)
         /\ \A j \in 1..Len(q.errout) : Includes(q.emits[i].text, q.errout[j])
         /\ Cardinality({n \in 1..Len(q.emits) : q.emits[n].ev = "sftp-error"}) = 1 )

\* The terminal notifications of request r: its success event or an error.
Terminal(r) ==
  {i \in 1..Len(reqs[r].emits) :
     reqs[r].emits[i].ev \in {"sftp-error", SuccessEvent(reqs[r].op)}}

\* Request r was satisfied by the shell fallback.
FallbackSatisfied(r) ==
  /\ reqs[r].sres = "err" /\ reqs[r].ph = "done"
  /\ \E i \in EmitsBy(r, "execclose") : reqs[r].emits[i].ev = SuccessEvent(reqs[r].op)

\* C11: a request satisfied by the shell fallback has sent the client exactly
\* what a successful structured call sends: the operation's success event once,
\* with the same payload shape, and no error.
C11_FallbackSameAsStructured ==
  \A r \in ReqIds :
    FallbackSatisfied(r)
    => ( /\ Len(reqs[r].emits) = 1
         /\ reqs[r].emits[1].ev = SuccessEvent(reqs[r].op)
         /\ reqs[r].emits[1].text = PayloadShape(reqs[r].op) )

\* C12: a delete, rename, mkdir, read or save request accepted on a session
\* with a registered file capability never has more than one terminal
\* notification, and has exactly one when it is finished, whatever the order of
\* the structured call's completion events.
C12_ExactlyOneTerminal ==
  \A r \in ReqIds :
    (reqs[r].op \in FileOps /\ reqs[r].conn # 0)
    => ( /\ Cardinality(Terminal(r)) <= 1
         /\ reqs[r].ph = "done" => Cardinality(Terminal(r)) = 1 )

\* The session's record holds an sftp handle.
Capable(s) ==
  /\ s \in SessionIds
  /\ \E c \in ConnIds : sshConnections[s] = c /\ conns[c].kind = "sftp"

\* The request that arrives in a step, as the step leaves it.
Arrives == Len(reqs') = Len(reqs) + 1
Arrived == reqs'[Len(reqs')]

\* C14: a file-operation event arriving for a session without a registered
\* file capability gets exactly one 'No active SFTP connection' error, makes
\* no SFTP call and runs no shell command, and leaves the registry and the
\* transports as they were; nothing more is ever sent for it.
C14_NoCapabilityOneError ==
  [][ /\ ( Arrives /\ Arrived.op \in EventOps
             /\ ~Capable(sockets[Arrived.sock].sid) )
         => ( /\ Len(Arrived.emits) = 1
              /\ Arrived.emits[1].ev = "sftp-error"
              /\ Arrived.emits[1].text = <<"No active SFTP connection">>
              /\ Arrived.remote = 0 /\ Arrived.nexec = 0
              /\ sshConnections' = sshConnections /\ conns' = conns )
      /\ \A r \in ReqIds :
           (reqs[r].op \in EventOps /\ reqs[r].remote = 0 /\ reqs[r].nexec = 0)
           => reqs'[r] = reqs[r] ]_vars

C14_Witness ==
  \E r \in ReqIds :
    /\ reqs[r].op = "zip-directory"
    /\ reqs[r].emits = <<[ev |-> "sftp-error", text |-> <<"No active SFTP connection">>,
                          by |-> "guard", up |-> TRUE]>>
    /\ sshConnections[sockets[reqs[r].sock].sid] # 0

C16_NothingAfterDisconnect ==
  \A r \in ReqIds : \A i \in 1..Len(reqs[r].emits) : reqs[r].emits[i].up

\* C17: whatever the order of remote failures, transport closes and client
\* disconnects, the error callback of a structured call raises no TypeError,
\* also when it runs after the session's registry entry has been removed.
C17_NoUncaughtException ==
  \A r \in ReqIds : reqs[r].exc # "TypeError"

\* Session s is Ready: its record holds the shell stream of an open transport.
Ready(s) ==
  \E c \in ConnIds :
    /\ sshConnections[s] = c /\ conns[c].kind = "ssh" /\ conns[c].st = "open"
    /\ ~conns[c].sclosed /\ ~conns[c].closed

\* All the texts of a sequence, one after the other.
RECURSIVE Concat(_)
Concat(texts) ==
  IF texts = <<>> THEN <<>> ELSE Head(texts) \o Concat(Tail(texts))

\* C18: a command submitted while its session is Ready appends exactly the
\* command text followed by one line terminator to what has been written to
\* the shell stream, after everything written before; no other step writes
\* to the stream or changes what was written.
C18_CommandsWrittenInOrder ==
  [][ LET n == Len(term.submitted) IN
      IF Len(term'.submitted) = n + 1 /\ Ready(term'.submitted[n + 1].sid)
      THEN term'.written = Append(term.written, <<term'.submitted[n + 1].cmd, "\n">>)
      ELSE term'.written = term.written ]_vars

C18_Witness ==
  /\ Len(term.submitted) = 2
  /\ term.written = <<<<"ls", "\n">>, <<"pwd", "\n">>>>

\* C19: every stdout chunk is forwarded once, in the order received: the n-th
\* 'response' is the text of the n-th chunk, so the responses concatenated are
\* the chunks' texts concatenated; stderr chunks go out as 'error' events and
\* never as responses; between data events dataBuffer is empty.
C19_OutputForwardedInOrder ==
  /\ Len(term.responses) = Len(term.chunks)
  /\ \A i \in 1..Len(term.chunks) : term.responses[i] = Utf8ToString(term.chunks[i])
  /\ Concat(term.responses)
       = Concat([i \in 1..Len(term.chunks) |-> Utf8ToString(term.chunks[i])])
  /\ term.dataBuffer = <<>>

C19_Witness ==
  /\ Len(term.chunks) = 2 /\ term.chunks[1] # term.chunks[2]
  /\ Len(term.responses) = 2

\* C20: the text forwarded to the client is the UTF-8 decoding of all the
\* bytes received, however the byte stream was split into chunks.
C20_SplitSequenceDecoded ==
  Concat(term.responses) = Utf8ToString(Concat(term.chunks))

\* How a POSIX shell splits a command string into words and control operators:
\* blanks separate words; a double quote opens a quoted run that the next
\* unescaped double quote closes; inside it a backslash escapes a double quote
\* or a backslash and is literal otherwise; outside it a backslash escapes the
\* next symbol.
ControlOps == {"||", "&&", "here-document"}
Word(v) == [t |-> "word", v |-> v]
Flush(cur, open) == IF open THEN <<Word(cur)>> ELSE <<>>

RECURSIVE ShellLex(_, _, _, _, _)
ShellLex(cmd, i, inq, cur, open) ==
  IF i > Len(cmd)
  THEN IF inq THEN <<[t |-> "unterminated", v |-> cur]>> ELSE Flush(cur, open)
  ELSE LET c == cmd[i] IN
    IF inq
    THEN IF c = Quote THEN ShellLex(cmd, i + 1, FALSE, cur, TRUE)
         ELSE IF c = Backslash /\ i < Len(cmd) /\ cmd[i + 1] \in {Quote, Backslash}
         THEN ShellLex(cmd, i + 2, TRUE, Append(cur, cmd[i + 1]), TRUE)
         ELSE ShellLex(cmd, i + 1, TRUE, Append(cur, c), TRUE)
    ELSE IF c = Quote THEN ShellLex(cmd, i + 1, TRUE, cur, TRUE)
         ELSE IF c = Backslash
         THEN (IF i < Len(cmd)
               THEN ShellLex(cmd, i + 2, FALSE, Append(cur, cmd[i + 1]), TRUE)
               ELSE ShellLex(cmd, i + 1, FALSE, cur, open))
         ELSE IF c = Blank
         THEN Flush(cur, open) \o ShellLex(cmd, i + 1, FALSE, <<>>, FALSE)
         ELSE IF c \in ControlOps
         THEN Flush(cur, open) \o <<[t |-> "op", v |-> <<c>>]>>
              \o ShellLex(cmd, i + 1, FALSE, <<>>, FALSE)
         ELSE ShellLex(cmd, i + 1, FALSE, Append(cur, c), TRUE)

OrEcho(sentinel) ==
  <<[t |-> "op", v |-> <<"||">>], Word(<<"echo">>), Word(<<sentinel>>)>>
AndThen == <<[t |-> "op", v |-> <<"&&">>]>>

\* The words the command has when the path is one literal argument of it.
Intended(op, path) ==
  CASE op = "rm -rf" -> <<Word(<<"rm">>), Word(<<"-rf">>), Word(path)>> \o OrEcho("RM_FAILED")
    [] op = "rm" -> <<Word(<<"rm">>), Word(path)>> \o OrEcho("RM_FAILED")
    [] op = "mv from" ->
         <<Word(<<"mv">>), Word(path), Word(OtherPath)>> \o OrEcho("MV_FAILED")
    [] op = "mv to" ->
         <<Word(<<"mv">>), Word(OtherPath), Word(path)>> \o OrEcho("MV_FAILED")
    [] op = "mkdir -p" ->
         <<Word(<<"mkdir">>), Word(<<"-p">>), Word(path)>> \o OrEcho("MKDIR_FAILED")
    [] op = "cat" -> <<Word(<<"cat">>), Word(path)>>
    [] op = "save" ->
         <<[t |-> "op", v |-> <<"here-document">>]>> \o AndThen
         \o <<Word(<<"mv">>), Word(TempPath), Word(path)>> \o OrEcho("WRITE_FAILED")
    [] op = "zip" ->
         <<Word(<<"zip">>), Word(<<"-r">>),
           Word(CurrentDir(path) \o ZipFileName(path)), Word(path)>>
         \o OrEcho("ZIP_FAILED")
    [] OTHER ->
         <<Word(<<"zip">>), Word(<<"-r">>),
           Word(<<"/tmp/">> \o ZipFileName(path)), Word(path)>>
         \o AndThen
         \o <<Word(<<"cp">>), Word(<<"/tmp/">> \o ZipFileName(path)),
              Word(CurrentDir(path))>>
         \o AndThen
         \o <<Word(<<"rm">>), Word(<<"/tmp/">> \o ZipFileName(path))>>
         \o OrEcho("TEMP_ZIP_FAILED")

\* C13: in every command the coordinator synthesizes, a path made of letters,
\* slashes and double quotes is a single literal argument: the shell reads the
\* command as the intended words, with the path as one of them.
C13_PathIsSingleArgument ==
  (esc.op # "none" /\ \A i \in 1..Len(esc.path) : esc.path[i] # Backslash)
  => ShellLex(esc.cmd, 1, FALSE, <<>>, FALSE) = Intended(esc.op, esc.path)

C22_ZipCombinedDiagnostics ==
  \A r \in ReqIds : \A i \in EmitsBy(r, "retryclose") :
    reqs[r].emits[i].ev = "sftp-error"
    => ( /\ \A j \in 1..Len(reqs[r].errout) :
              Includes(reqs[r].emits[i].text, reqs[r].errout[j])
         /\ \A j \in 1..Len(reqs[r].errout2) :
              Includes(reqs[r].emits[i].text, reqs[r].errout2[j]) )

\* The directory a path names: the path without its trailing slashes.
RECURSIVE Target(_)
Target(path) ==
  IF path # <<>> /\ path[Len(path)] = "/"
  THEN Target(SubSeq(path, 1, Len(path) - 1)) ELSE path

IsPrefix(p, q) == Len(p) <= Len(q) /\ SubSeq(q, 1, Len(p)) = p

\* C30: for a target path of letters and slashes that names a directory
\* other than the root, the archive the direct zip command writes is not
\* inside the target, and its file name is the target's last component
\* followed by -<timestamp>.zip.
C30_ArchiveInParentOfTarget ==
  ( /\ esc.op = "zip"
    /\ \A i \in 1..Len(esc.path) : esc.path[i] \in {"a", "/"}
    /\ Target(esc.path) # <<>> )
  => LET zipPath == ShellLex(esc.cmd, 1, FALSE, <<>>, FALSE)[3].v
         target == Target(esc.path) IN
       /\ ~IsPrefix(target \o <<"/">>, zipPath)
       /\ SubSeq(zipPath, LastSlash(zipPath) + 1, Len(zipPath))
            = SubSeq(target, LastSlash(target) + 1, Len(target))
              \o <<"-", "timestamp", ".zip">>

\* C27: a connect-ssh or connect-sftp request whose transport failed before
\* it was ready has been sent exactly one error notification and conn.connect
\* has been called once for it; while it is still connecting nothing has been
\* sent.
C27_TransportFailureOneError ==
  \A c \in ConnIds :
    /\ conns[c].connects = 1
    /\ conns[c].st = "connecting" => conns[c].errs = 0
    /\ conns[c].st = "connfail" => conns[c].errs = 1

C27_Witness ==
  \E c, d \in ConnIds :
    /\ conns[c].kind = "ssh" /\ conns[c].st = "connfail" /\ conns[c].closed
    /\ conns[d].kind = "sftp" /\ conns[d].st = "connfail" /\ conns[d].closed

\* C28: when a connect-ssh and a connect-sftp of one session have both
\* completed, and neither transport has been ended or closed and the client
\* is still connected, the session has its shell stream and its file
\* capability registered.
C28_ShellAndFileIndependent ==
  \A c, d \in ConnIds :
    ( /\ conns[c].sid = conns[d].sid
      /\ conns[c].kind = "ssh" /\ conns[c].st = "open"
      /\ conns[d].kind = "sftp" /\ conns[d].st = "open"
      /\ ~Ended(c) /\ ~Ended(d) /\ ~conns[c].sclosed
      /\ sockets[conns[c].sock].up /\ sockets[conns[d].sock].up )
    => (HasStream(conns[c].sid) /\ HasSftp(conns[c].sid))

\* C29: in every reachable state a registered Client, with the shell stream
\* or file capability opened on it, is held by the record of one session id
\* only, the one of the request that created it.
C29_HandleUnderOneSession ==
  \A s \in SessionIds :
    sshConnections[s] # 0
    => ( /\ sshConnections[s] \in ConnIds
         /\ conns[sshConnections[s]].sid = s
         /\ \A t \in SessionIds \ {s} : sshConnections[t] # sshConnections[s] )

C29_Witness ==
  /\ HasStream(1) /\ HasSftp(2)
  /\ sshConnections[1] # sshConnections[2]

\* C24: on the save-file event and on the /file/save endpoint, a write
\* stream has been opened only after the stat of the file was answered, with
\* the mode of the existing file when the stat succeeded and with 0o644 when
\* it failed.
C24_SaveKeepsExistingMode ==
  \A r \in ReqIds :
    (reqs[r].op \in {"save-file", "POST /file/save"} /\ reqs[r].mode # 0)
    => ( /\ reqs[r].stat.done
         /\ ~reqs[r].stat.err => reqs[r].mode = reqs[r].stat.mode
         /\ reqs[r].stat.err => reqs[r].mode = DefaultMode )

\* C25: the temporary path of a save-file fallback is uniquely named: no two
\* requests whose fallback has been started write to the same temporary path.
C25_TempPathUnique ==
  \A q, r \in ReqIds :
    (q # r /\ reqs[q].temp # 0 /\ reqs[r].temp # 0)
    => reqs[q].temp # reqs[r].temp

\* C26: a read-file request whose read stream failed runs one cat command;
\* when the command has closed, the client has file-content carrying exactly
\* the command's standard output if the exit code is zero, and otherwise an
\* error whose text contains the read stream's error message and the
\* command's standard-error text.
C26_ReadFallbackContent ==
  \A r \in ReqIds :
    (reqs[r].op = "read-file" /\ reqs[r].sres = "err")
    => ( /\ reqs[r].nexec = 1
         /\ \A i \in EmitsBy(r, "execclose") :
              IF reqs[r].code = 0
              THEN /\ reqs[r].emits[i].ev = "file-content"
                   /\ reqs[r].sent = reqs[r].out
              ELSE /\ reqs[r].emits[i].ev = "sftp-error"
                   /\ Includes(reqs[r].emits[i].text, reqs[r].serr)
                   /\ \A j \in 1..Len(reqs[r].errout) :
                        Includes(reqs[r].emits[i].text, reqs[r].errout[j]) )

\* The names of the files of a listing whose read streams deliver.
RECURSIVE ReadableNames(_)
ReadableNames(list) ==
  IF list = <<>> THEN <<>>
  ELSE (IF Head(list).readable THEN <<Head(list).name>> ELSE <<>>)
       \o ReadableNames(Tail(list))

\* C23: once the directory of a zip download has been listed, a failing
\* read stream never aborts the archive (the response is not ended with an
\* error and the archive does not stop), and an archive that has ended
\* contains exactly the files whose read streams delivered.
C23_ArchiveToleratesUnreadable ==
  \A r \in ReqIds :
    reqs[r].arch.finalized
    => ( /\ reqs[r].arch.res # "500"
         /\ ~reqs[r].arch.stalled
         /\ reqs[r].arch.res = "ended"
              => reqs[r].arch.written = ReadableNames(reqs[r].arch.list) )

\* C31: the step that registers a shell stream writes `cd <initialPath>` to
\* it exactly when an initial path was given and is not '/home', and writes
\* nothing else; as the stream is registered by that same step, no command
\* of the client has been written to it before.  No other step writes a
\* directory change.
C31_InitialDirectoryFirst ==
  [][ IF \E c \in ConnIds : conns[c].st = "ready" /\ conns'[c].st = "open"
      THEN LET c == CHOOSE d \in ConnIds :
                      conns[d].st = "ready" /\ conns'[d].st = "open"
               p == conns[c].initialPath IN
           /\ sshConnections'[conns[c].sid] = c
           /\ term'.written =
                IF p \notin {NoPath, ""} /\ p # "/home"
                THEN Append(term.written, <<"cd ", p, "\n">>)
                ELSE term.written
      ELSE \/ term'.written = term.written
           \/ \E cmd \in Commands :
                term'.written = Append(term.written, <<cmd, "\n">>) ]_vars

C31_Witness ==
  /\ term.written = <<<<"cd ", "/srv", "\n">>, <<"ls", "\n">>>>
  /\ \E c \in ConnIds : conns[c].initialPath = "/home" /\ conns[c].st = "open"

\* C32: when a transport that was registered, or its shell stream, closes
\* while the registry entry of its session does not hold that transport, the
\* step leaves the registry as it was.
C32_StaleCloseLeavesRegistry ==
  [][ \A c \in ConnIds :
        ( /\ \/ ~conns[c].closed /\ conns'[c].closed
             \/ ~conns[c].sclosed /\ conns'[c].sclosed
          /\ conns[c].st = "open"
          /\ sshConnections[conns[c].sid] # c )
        => sshConnections' = sshConnections ]_vars

\* C33: in every reachable state the transport held by a registry entry is
\* live: its shell or SFTP session was opened after ready, end() has not
\* been called on it and it has not emitted close.
C33_RegisteredTransportLive ==
  \A s \in SessionIds :
    sshConnections[s] # 0
    => LET c == sshConnections[s] IN
       /\ conns[c].st = "open"
       /\ conns[c].ends = 0
       /\ ~conns[c].closed

C33_Witness ==
  \E c, d \in ConnIds :
    /\ c # d /\ conns[c].sid = conns[d].sid
    /\ sshConnections[conns[c].sid] = c
    /\ conns[d].st = "open" /\ conns[d].closed /\ conns[d].ends = 1

\* C34: a 'command' event for a session whose registry entry holds no shell
\* stream writes nothing and adds one 'No active SSH connection' error; the
\* command is not kept: no later step writes a line of its own accord, a
\* step that submits no command writes at most the directory change.
C34_CommandWithoutShell ==
  [][ LET n == Len(term.submitted) IN
      IF Len(term'.submitted) = n + 1
      THEN LET s == term'.submitted[n + 1].sid IN
           (sshConnections[s] = 0 \/ conns[sshConnections[s]].kind # "ssh")
           => ( /\ term'.written = term.written
                /\ term'.errors = Append(term.errors, <<"No active SSH connection">>) )
      ELSE /\ term'.errors = term.errors
           /\ \/ term'.written = term.written
              \/ \E p \in InitialPaths :
                   term'.written = Append(term.written, <<"cd ", p, "\n">>) ]_vars

C34_Witness ==
  /\ HasSftp(1)
  /\ term.errors = <<<<"No active SSH connection">>, <<"No active SSH connection">>>>
  /\ term.written = <<>>
  /\ \E c \in ConnIds : conns[c].kind = "ssh" /\ conns[c].st = "open"

\* C35: an accepted upload-file request never runs a shell command and never
\* has more than one of upload-complete / upload error; once its write
\* stream has closed it has exactly one.
C35_UploadOneTerminal ==
  \A r \in ReqIds :
    (reqs[r].op = "upload-file" /\ reqs[r].conn # 0)
    => ( /\ reqs[r].nexec = 0
         /\ Cardinality(Terminal(r)) <= 1
         /\ reqs[r].wclosed => Cardinality(Terminal(r)) = 1 )

\* C36: a zip download that passed the guards calls finalize() once, at the
\* step where the traversal ends: while a listing is awaited it has not been
\* called, afterwards it has been called once.  The step in which a listing
\* fails, at any depth, ends the traversal (nothing is awaited and no loop
\* is left to resume) and appends nothing, and no later step appends.
C36_FinalizeOnce ==
  [][ \A r \in ReqIds :
        LET a == reqs[r].arch
            b == reqs'[r].arch IN
        (reqs[r].op = "POST /file/zip-download" /\ reqs[r].remote = 1)
        => ( /\ a.outstanding \in {0, 1} /\ b.outstanding \in {0, 1}
             /\ a.outstanding = 1 => a.finalizes = 0
             /\ b.outstanding = 1 => b.finalizes = 0
             /\ b.outstanding = 0 => b.finalizes = 1
             /\ (~a.failed /\ b.failed)
                  => (b.list = a.list /\ b.stack = <<>> /\ b.outstanding = 0)
             /\ a.finalizes = 1 => b.list = a.list ) ]_vars

C36_Witness ==
  \E r \in ReqIds :
    LET a == reqs[r].arch IN
    /\ a.failed /\ a.finalizes = 1 /\ a.ndirs = 1
    /\ Len(a.list) = 1 /\ a.res = "ended" /\ a.written = <<1>>

\* C37: a request whose structured call failed and whose fallback command
\* could not be started has been sent one error, by the exec callback, that
\* contains the structured call's error message and the exec error message;
\* it is finished, has sent nothing else and has run no second command.
C37_ExecStartFailure ==
  \A r \in ReqIds : \A i \in EmitsBy(r, "execcb") :
    LET q == reqs[r] IN
    /\ q.sres = "err" /\ q.ph = "done" /\ q.nexec = 1
    /\ q.emits[i].ev = "sftp-error"
    /\ Includes(q.emits[i].text, q.serr)
    /\ \E m \in ShellErrMsgs : Includes(q.emits[i].text, m)
    /\ Len(q.emits) = 1

C37_Witness ==
  \E r \in ReqIds :
    /\ reqs[r].op = "read-file" /\ reqs[r].ph = "done"
    /\ EmitsBy(r, "execcb") = {1}
    /\ reqs[r].emits[1].text
         = <<"Failed to read file: ", "Permission denied",
             ". Shell command also failed: ", "Unable to exec">>

\* The day a backup was created, as its file name states it, and its age on
\* the day of the run.
CreatedDay(f) == DayNumber(f.date)
AgeOf(f) == backupsDir.now - CreatedDay(f)
BeforePrune == backupsDir.files \cup backupsDir.unlinked

\* C38: pruneOldBackups deletes nothing when 7 or fewer backup files exist,
\* and for any number of backups it never deletes a backup created within the
\* last 7 days, in particular never the backup the same run has just created.
C38_RecentBackupsKept ==
  backupsDir.ph = "pruned" =>
    /\ Cardinality(BeforePrune) <= 7 => backupsDir.unlinked = {}
    /\ \A f \in backupsDir.unlinked : AgeOf(f) > 7
    /\ BackupFilename(backupsDir.now) \notin backupsDir.unlinked

\* The older backups the retention rule names: the newest of every week that
\* has a backup between 7 days and one month old, and the newest of every
\* month that has a backup older than one month.
OlderThanAWeek == {f \in BeforePrune : AgeOf(f) > 7}
WeekOf(f) == GetWeekNumber([valid |-> TRUE, t |-> CreatedDay(f)])
MonthOf(f) == << f.date[1], f.date[2] >>
NewestOfWeek ==
  {f \in OlderThanAWeek : AgeOf(f) <= 30 /\
     \A g \in OlderThanAWeek :
       (AgeOf(g) <= 30 /\ WeekOf(g) = WeekOf(f)) => AgeOf(g) >= AgeOf(f)}
NewestOfMonth ==
  {f \in OlderThanAWeek : AgeOf(f) > 30 /\
     \A g \in OlderThanAWeek :
       (AgeOf(g) > 30 /\ MonthOf(g) = MonthOf(f)) => AgeOf(g) >= AgeOf(f)}

\* C39: when pruneOldBackups prunes, among the backups older than 7 days it
\* keeps the newest backup of every week that has a backup between 7 days and
\* one month old and the newest backup of every calendar month that has a
\* backup older than one month, and deletes exactly the other older backups.
C39_WeeklyAndMonthlyKept ==
  (backupsDir.ph = "pruned" /\ Cardinality(BeforePrune) > 7) =>
    backupsDir.unlinked \cap OlderThanAWeek
      = OlderThanAWeek \ (NewestOfWeek \cup NewestOfMonth)

====
